---- MODULE Spec2Model ----
(***************************************************************************)
(* Model of the JHS encoder reader gateway:                                *)
(*   - ModbusClient.read_register and the typed accessors (client.py)      *)
(*   - EncoderController: lap counter, direction, poll loop                *)
(*     (encoder_controller.py)                                             *)
(*   - MainController: monitor-task map, data-update de-duplication        *)
(*     (main_controller.py)                                                *)
(*   - OSCServer: client registry, outbound queue, broadcast               *)
(*     (osc_server.py)                                                     *)
(*                                                                         *)
(* Python's None is the empty tuple <<>>, a present value v is <<v>>.      *)
(* Wall-clock time is an integer number of milliseconds.                   *)
(***************************************************************************)
EXTENDS Integers, Sequences, FiniteSets, TLC

VARIABLES
    \* ---- ModbusClient (client.py) ----
    serial_available,         \* self._serial_available
    dev_connected,            \* self._connected
    error_count,              \* self.error_count
    encoder_resolution,       \* self.encoder_resolution
    encoder_sampling_time_ms, \* self.encoder_sampling_time_ms
    \* ---- one read_register call in progress (client.py:268-349) ----
    rr_pc,                    \* "idle" | "loop" | "returned"
    rr_address,               \* the address argument
    rr_retry,                 \* the loop variable `retry`
    rr_result,                \* the value returned (None or <<v>>)
    rr_trace,                 \* outcomes of the attempts made by this call
    rr_err0,                  \* error_count when the call was entered
    \* ---- EncoderController (encoder_controller.py) ----
    connected,                \* self.connected
    modbus_client,            \* self.modbus_client (None or <<client id>>)
    last_position,            \* self.last_position
    current_lap_count,        \* self.current_lap_count
    position_threshold,       \* self.position_threshold
    consecutive_errors,       \* self.consecutive_errors
    events,                   \* events handed to _trigger_event by the last operation
    enc_ret,                  \* what the last controller operation was and returned
    \* ---- OSCServer (osc_server.py) ----
    now,                      \* time.time(), in milliseconds
    osc_running,              \* self.running
    send_thread_alive,        \* self.send_thread.is_alive()
    clients,                  \* self.clients, in insertion order
    message_queue,            \* self.message_queue
    wire,                     \* datagrams handed to the network by the last operation
    refused,                  \* clients a send of the last operation was refused for
    osc_ret,                  \* what the last server operation was
    \* ---- MainController (main_controller.py) ----
    continuous_tasks,         \* self.continuous_tasks, in insertion order
    task_lock,                \* self.continuous_task_lock: None or <<owner>>
    tasks_made,               \* task ids handed out so far (uuid4 calls)
    hpc,                      \* per handler thread: where it is in its command
    hcmd,                     \* per handler thread: the command and its parameters
    hloc,                     \* per handler thread: its local variables and result
    \* ---- EncoderController threading (encoder_controller.py) ----
    enc_lock,                 \* self.lock (re-entrant): owner and depth
    stop_monitoring_event,    \* self.stop_monitoring_event.is_set()
    monitoring_thread,        \* self.monitoring_thread: None or <<thread>>
    connection_monitor,       \* self.connection_monitor: None or <<1>>, a monitor object
    thr_pc,                   \* per poll thread: where it is in monitoring_task
    thr_loc,                  \* per poll thread: its local variables
    \* ---- the CRC functions applied to one message (crc.py) ----
    crc_pc,                   \* "data" | "framed" | "verified"
    crc_data,                 \* the bytes handed to append_crc
    crc_frame,                \* the frame: append_crc's result, as it is on the line
    crc_flip,                 \* None, or <<i>> when bit i of the frame was inverted
    crc_ok,                   \* what verify_crc returned for the frame
    \* ---- one run of monitoring_task by itself (encoder_controller.py:491-617) ----
    pl_pc,                    \* where the run is: "while" | "body" | "nilwait" | "package" | "wait" | "finally" | "done"
    pl_interval,              \* the interval argument, in seconds
    pl_errs,                  \* the local consecutive_errors
    pl_since,                 \* time.time() - last_successful_read, in seconds
    pl_events,                \* events handed to _trigger_event by the last step
    pl_out,                   \* what the last cycle's position read did
    pl_nil_run,               \* nil position reads in a row up to now
    pl_prev_run,              \* nil position reads in a row before the last good read
    pl_error_events,          \* on_monitor_error events of this run
    pl_nil_reads,             \* nil position reads of this run
    pl_cycles,                \* cycles of this run
    \* ---- ConnectionMonitor (monitoring.py) ----
    cm_now,                   \* time.time(), in seconds
    cm_retry_count,           \* self.retry_count
    cm_last_connection_time,  \* self.last_connection_time
    cm_health_failures,       \* consecutive_health_failures, local to _monitor_task
    cm_note,                  \* None, or the (connected, error) the last tick gave the listeners
    cm_tick,                  \* what the last tick of _monitor_task did
    cm_failed_checks,         \* failed health checks in a row up to now
    cm_failed_attempts,       \* failed reconnection attempts in a row up to now
    cm_last_attempt,          \* None, or <<the time of the last reconnection attempt>>
    \* ---- ModbusClient.write_register (client.py:459-544) ----
    slave_address,            \* self.slave_address
    baudrate,                 \* self.baudrate
    wr_ret,                   \* the last write_register call: arguments, outcome, state before
    \* ---- the ModbusClient objects of one controller (encoder_controller.py:138-188) ----
    open_handles,             \* the clients whose serial.Serial is open
    monitor_device,           \* None, or <<the client the connection monitor was built on>>
    \* ---- one publication of _trigger_event (encoder_controller.py:672-703) ----
    event_listeners,          \* self.event_listeners: event name -> the callbacks, in order
    ev_pc,                    \* "idle", "calling", "done" or "escaped"
    ev_name,                  \* the event being published
    ev_listeners,             \* the local list the loop runs over
    ev_at_pub,                \* what was registered for the event when it was published
    ev_calls,                 \* the callbacks invoked so far by this publication
    ev_raised,                \* the positions in ev_calls whose callback raised
    ev_cycles,                \* publications the publisher has come back from
    \* ---- MainController.shutdown (main_controller.py:285-339) ----
    sd_pc,                    \* "running", then "osc", "encoder", "finished"
    sd_alive,                 \* the worker threads that are alive
    sd_osc_running,           \* OSCServer.running
    sd_udp_open,              \* the server's UDP socket is open
    sd_serial_open,           \* the controller holds a client with an open, connected handle
    sd_tasks,                 \* whether continuous_tasks holds an encoder task
    sd_order,                 \* the shutdown steps performed so far, in order
    sd_alive_at_close,        \* the threads alive when the serial handle was closed
    \* ---- the threads that use one controller's serial handle ----
    tx_lock,                  \* the controller's self.lock (re-entrant): owner and depth
    tx_pc,                    \* where each thread is
    tx_in,                    \* the threads inside a request/response transaction
    tx_open,                  \* the handle is open
    tx_running,               \* ConnectionMonitor.running
    tx_overlap,               \* two transactions have been in progress at once
    tx_cut,                   \* the handle has been closed during a transaction
    \* ---- the controller's lock and the client registry's lock ----
    lo_session,               \* EncoderController.lock (re-entrant): owner and depth
    lo_registry,              \* OSCServer.clients_lock (re-entrant): owner and depth
    lo_prog,                  \* what each thread is running: its lock operations in order
    lo_i,                     \* how many of them each thread has done
    \* ---- the mutations of the client registry and of the task map ----
    mu_clients_lock,          \* OSCServer.clients_lock (re-entrant): owner and depth
    mu_task_lock,             \* MainController.continuous_task_lock: owner and depth
    mu_prog,                  \* what each thread is running: its steps in order
    mu_i,                     \* how many of them each thread has done
    mu_log,                   \* the mutations made: what, and whether under its lock
    \* ---- a stop call on a background loop that is asleep (times in 0.1 s) ----
    st_loop,                  \* the loop being stopped, "" before any stop call
    st_elapsed,               \* how long the loop had been asleep when stop was called
    st_left,                  \* how long the loop goes on sleeping after the stop request
    st_alive,                 \* whether its thread is alive when the join of the stop call returns
    sv_running,               \* OSCServer.running
    sv_send_thread,           \* the sender thread: "alive" or "dead"
    sv_queue,                 \* OSCServer.message_queue
    sv_sent,                  \* the messages handed to _send_data
    sv_made,                  \* how many messages send_response has enqueued
    sv_calls                  \* how many start and stop calls have been made

mbVars  == <<serial_available, dev_connected, error_count,
             encoder_resolution, encoder_sampling_time_ms>>
rrVars  == <<rr_pc, rr_address, rr_retry, rr_result, rr_trace, rr_err0>>
encVars == <<connected, modbus_client, last_position, current_lap_count,
             position_threshold, consecutive_errors>>
encOut  == <<events, enc_ret>>

oscVars == <<now, osc_running, send_thread_alive, clients, message_queue, wire, refused, osc_ret>>
mainVars == <<continuous_tasks, task_lock, tasks_made, hpc, hcmd, hloc>>
thrVars == <<enc_lock, stop_monitoring_event, monitoring_thread, connection_monitor,
             thr_pc, thr_loc>>
crcVars == <<crc_pc, crc_data, crc_frame, crc_flip, crc_ok>>
pollVars == <<pl_pc, pl_interval, pl_errs, pl_since, pl_events, pl_out, pl_nil_run,
              pl_prev_run, pl_error_events, pl_nil_reads, pl_cycles>>

\* everything above the encoder controller's sequential state
\* the components that are exercised on their own, apart from the gateway
cmVars == <<cm_now, cm_retry_count, cm_last_connection_time, cm_health_failures,
            cm_note, cm_tick, cm_failed_checks, cm_failed_attempts, cm_last_attempt>>
wrVars == <<slave_address, baudrate, wr_ret>>
sessVars == <<open_handles, monitor_device>>
evVars == <<event_listeners, ev_pc, ev_name, ev_listeners, ev_at_pub, ev_calls, ev_raised,
            ev_cycles>>
sdVars == <<sd_pc, sd_alive, sd_osc_running, sd_udp_open, sd_serial_open, sd_tasks, sd_order,
            sd_alive_at_close>>
loVars == <<lo_session, lo_registry, lo_prog, lo_i>>
muVars == <<mu_clients_lock, mu_task_lock, mu_prog, mu_i, mu_log>>
stVars == <<st_loop, st_elapsed, st_left, st_alive>>
svVars == <<sv_running, sv_send_thread, sv_queue, sv_sent, sv_made, sv_calls>>
lateVars == <<loVars, muVars, stVars, svVars>>
txVars == <<tx_lock, tx_pc, tx_in, tx_open, tx_running, tx_overlap, tx_cut>>
unitVars == <<crcVars, pollVars, cmVars, wrVars, sessVars, evVars, sdVars, txVars, lateVars>>

serverVars == <<oscVars, mainVars, thrVars, unitVars>>

\* the gateway's own state
coreVars == <<mbVars, rrVars, encVars, encOut, oscVars, mainVars, thrVars>>

vars == <<coreVars, unitVars>>

\* what the CRC functions leave alone
notCrcVars == <<coreVars, pollVars, cmVars, wrVars, sessVars, evVars, sdVars, txVars, lateVars>>

\* what a run of monitoring_task by itself leaves alone: all but the fields of
\* the controller it reads
notPollVars == <<mbVars, rrVars, last_position, current_lap_count, position_threshold,
                 consecutive_errors, encOut, oscVars, mainVars, enc_lock,
                 monitoring_thread, connection_monitor, thr_pc, thr_loc, crcVars, cmVars, wrVars,
                 sessVars, evVars, sdVars, txVars, lateVars>>

-----------------------------------------------------------------------------
(* Optional values and small helpers *)

None == <<>>
Some(v) == <<v>>
IsNone(x) == x = <<>>
Val(x) == x[1]

Abs(x) == IF x < 0 THEN -x ELSE x

\* no message has been handed to the CRC functions
CrcIdle ==
    /\ crc_pc = "data"
    /\ crc_data = <<>>
    /\ crc_frame = <<>>
    /\ crc_flip = None
    /\ crc_ok = FALSE

\* no run of monitoring_task is followed by itself
PollIdle ==
    /\ pl_pc = "done"
    /\ pl_interval = 0
    /\ pl_errs = 0
    /\ pl_since = 0
    /\ pl_events = <<>>
    /\ pl_out = ""
    /\ pl_nil_run = 0
    /\ pl_prev_run = 0
    /\ pl_error_events = 0
    /\ pl_nil_reads = 0
    /\ pl_cycles = 0

\* no ConnectionMonitor is followed by itself
CmIdle ==
    /\ cm_now = 0
    /\ cm_retry_count = 0
    /\ cm_last_connection_time = 0
    /\ cm_health_failures = 0
    /\ cm_note = None
    /\ cm_tick = "none"
    /\ cm_failed_checks = 0
    /\ cm_failed_attempts = 0
    /\ cm_last_attempt = None

\* the client as constructed (client.py:50-80), no write made yet
NoWrite == [op |-> "none", address |-> 0, value |-> 0, result |-> "", sent |-> FALSE,
            err |-> 0, slave0 |-> 0, baud0 |-> 0]

WrIdle ==
    /\ slave_address = 1
    /\ baudrate = 9600
    /\ wr_ret = NoWrite

\* no client object made yet
SessIdle ==
    /\ open_handles = {}
    /\ monitor_device = <<>>

\* the event names the publications are followed for
EventNames == {"on_data_update", "on_lap_change"}

\* no listener registered, nothing being published
EvIdle ==
    /\ event_listeners = [n \in EventNames |-> <<>>]
    /\ ev_pc = "idle"
    /\ ev_name = ""
    /\ ev_listeners = <<>>
    /\ ev_at_pub = <<>>
    /\ ev_calls = <<>>
    /\ ev_raised = {}
    /\ ev_cycles = 0

\* the system as constructed: the sender worker runs (OSCServer.__init__),
\* nothing else does
SdIdle ==
    /\ sd_pc = "running"
    /\ sd_alive = {"sender"}
    /\ sd_osc_running = FALSE
    /\ sd_udp_open = FALSE
    /\ sd_serial_open = FALSE
    /\ sd_tasks = FALSE
    /\ sd_order = <<>>
    /\ sd_alive_at_close = {}

\* the threads that take the two locks: the poll loop, a command handler and
\* the connection monitor
LoThreads == {"poll", "handler", "supervisor"}

\* both locks free, every thread between two operations
LoIdle ==
    /\ lo_session = [owner |-> <<>>, depth |-> 0]
    /\ lo_registry = [owner |-> <<>>, depth |-> 0]
    /\ lo_prog = [t \in LoThreads |-> <<>>]
    /\ lo_i = [t \in LoThreads |-> 0]

\* the threads that change the registry or the task map: two command
\* handlers (the server handles each datagram in a thread of its own) and the
\* poll loop, which publishes on_data_update
MuThreads == {"handler1", "handler2", "poll"}

\* both locks free, no mutation made
MuIdle ==
    /\ mu_clients_lock = [owner |-> <<>>, depth |-> 0]
    /\ mu_task_lock = [owner |-> <<>>, depth |-> 0]
    /\ mu_prog = [t \in MuThreads |-> <<>>]
    /\ mu_i = [t \in MuThreads |-> 0]
    /\ mu_log = {}

\* no stop call made
StIdle ==
    /\ st_loop = ""
    /\ st_elapsed = 0
    /\ st_left = 0
    /\ st_alive = FALSE

\* OSCServer after __init__ (osc_server.py:108-156): not running, the queue
\* empty, the sender thread started (line 156)
SvIdle ==
    /\ sv_running = FALSE
    /\ sv_send_thread = "alive"
    /\ sv_queue = <<>>
    /\ sv_sent = {}
    /\ sv_made = 0
    /\ sv_calls = 0

LateIdle == LoIdle /\ MuIdle /\ StIdle /\ SvIdle

\* the threads that use the handle: the poll loop, the threads of two
\* commands being handled and the connection monitor
TxHandlers == {"handler1", "handler2"}
TxThreads == {"poll", "supervisor"} \cup TxHandlers

\* a connected controller whose threads are between two operations
TxIdle ==
    /\ tx_lock = [owner |-> <<>>, depth |-> 0]
    /\ tx_pc = [t \in TxThreads |-> "idle"]
    /\ tx_in = {}
    /\ tx_open = TRUE
    /\ tx_running = TRUE
    /\ tx_overlap = FALSE
    /\ tx_cut = FALSE

UnitIdle == CrcIdle /\ PollIdle /\ CmIdle /\ WrIdle /\ SessIdle /\ EvIdle /\ SdIdle /\ TxIdle /\ LateIdle

-----------------------------------------------------------------------------
(* Bounds of the model *)

\* error counters are capped by the guards of the actions that raise them
MaxErrors == 3
\* lap counter is kept within -MaxLaps..MaxLaps by the guards
MaxLaps == 2

-----------------------------------------------------------------------------
(* Register map (registers.py) *)

READ_HOLDING_REGISTERS == 3
WRITE_SINGLE_REGISTER == 6

ENCODER_SINGLE_VALUE == 0
ENCODER_ANGULAR_SPEED == 3
ENCODER_ADDRESS == 4
BAUD_RATE == 5
AUTO_RESPONSE_TIME == 7
RESET_ZERO_FLAG == 8
VALUE_INCREASE_DIRECTION == 9
SAMPLING_TIME == 10

\* an address RegisterAddress does not define (0x0001 is in no entry of REGISTERS)
UNDEFINED_ADDRESS == 1

\* REGISTERS: address -> function code and data range of the descriptor.
\* The single-turn value's upper bound 0xFFFFFFFF is written as the largest
\* integer the model checker has; no code reads the range of a read register.
REGISTERS ==
    (ENCODER_SINGLE_VALUE :> [function_code |-> READ_HOLDING_REGISTERS, lo |-> 0, hi |-> 2147483647])
    @@ (ENCODER_ANGULAR_SPEED :> [function_code |-> READ_HOLDING_REGISTERS, lo |-> -32768, hi |-> 32767])
    @@ (ENCODER_ADDRESS :> [function_code |-> WRITE_SINGLE_REGISTER, lo |-> 1, hi |-> 255])
    @@ (BAUD_RATE :> [function_code |-> WRITE_SINGLE_REGISTER, lo |-> 0, hi |-> 4])
    @@ (AUTO_RESPONSE_TIME :> [function_code |-> WRITE_SINGLE_REGISTER, lo |-> 20, hi |-> 65535])
    @@ (RESET_ZERO_FLAG :> [function_code |-> WRITE_SINGLE_REGISTER, lo |-> 0, hi |-> 1])
    @@ (VALUE_INCREASE_DIRECTION :> [function_code |-> WRITE_SINGLE_REGISTER, lo |-> 0, hi |-> 1])
    @@ (SAMPLING_TIME :> [function_code |-> WRITE_SINGLE_REGISTER, lo |-> 0, hi |-> 65535])

\* get_register_info raises KeyError for an address that is not in REGISTERS
get_register_info_raises(address) == address \notin DOMAIN REGISTERS

-----------------------------------------------------------------------------
(* ModbusClient.read_register (client.py:268-349)                          *)
(*                                                                         *)
(* What pymodbus' read_holding_registers can do in one attempt:            *)
(*   "value"        a response carrying registers                          *)
(*   "none"         no response (None)                                     *)
(*   "exc_response" an ExceptionResponse                                   *)
(*   "modbus_exc"   raises ModbusException (pymodbus protocol error)       *)
(*   "io_exc"       raises any other exception (serial I/O error, ...)     *)

FailKinds == {"none", "exc_response", "modbus_exc", "io_exc"}

\* raw single-turn positions the device may answer with (0..4095 at 12 bits)
Positions == {10, 100, 150, 2058, 2059, 4090}

\* raw 16-bit speed register values the device may answer with; values above
\* 32767 are negative speeds in two's complement (65531 is -5)
RawSpeeds == {0, 1, 3, 12, 32768, 65531, 65535}

\* register values the device may answer with
RegValues == Positions \cup RawSpeeds

OutcomesOf(values) == [kind : FailKinds, value : {0}] \cup [kind : {"value"}, value : values]

Outcomes == OutcomesOf(RegValues)

\* the last index of `for retry in range(3)`
LAST_RETRY == 2

\* One iteration of the retry loop with loop variable `retry`:
\*   next = "continue": sleep 0.1*(retry+1) and go on with retry+1
\*   next = "return"  : return `value`, after adding `err` to error_count
\* `sent` tells whether the request went out on the wire.
read_register_attempt(address, retry, out) ==
    IF get_register_info_raises(address)
    THEN \* KeyError is caught by `except Exception`
         IF retry < LAST_RETRY
         THEN [next |-> "continue", value |-> None, err |-> 0, sent |-> FALSE]
         ELSE [next |-> "return", value |-> None, err |-> 1, sent |-> FALSE]
    ELSE IF REGISTERS[address].function_code # READ_HOLDING_REGISTERS
    THEN [next |-> "return", value |-> None, err |-> 0, sent |-> FALSE]
    ELSE CASE out.kind = "value" ->
                [next |-> "return", value |-> Some(out.value), err |-> 0, sent |-> TRUE]
           [] out.kind \in {"none", "exc_response"} ->
                IF retry < LAST_RETRY
                THEN [next |-> "continue", value |-> None, err |-> 0, sent |-> TRUE]
                ELSE [next |-> "return", value |-> None, err |-> 1, sent |-> TRUE]
           [] out.kind = "modbus_exc" ->
                \* `except ModbusException` does not retry
                [next |-> "return", value |-> None, err |-> 1, sent |-> TRUE]
           [] out.kind = "io_exc" ->
                IF retry < LAST_RETRY
                THEN [next |-> "continue", value |-> None, err |-> 0, sent |-> TRUE]
                ELSE [next |-> "return", value |-> None, err |-> 1, sent |-> TRUE]

\* The whole loop on the attempt outcomes `outs` (outs[i] is what attempt i does):
\* the returned value, the increment of error_count and the attempts made.
RECURSIVE read_register_loop(_, _, _)
read_register_loop(address, retry, outs) ==
    LET a == read_register_attempt(address, retry, outs[retry + 1])
    IN IF a.next = "continue"
       THEN read_register_loop(address, retry + 1, outs)
       ELSE [value |-> a.value, err |-> a.err, attempts |-> retry + 1]

\* read_register as one call: `conn` is whether connect() succeeds when the
\* client is not connected yet.
read_register(address, avail, isconn, conn, outs) ==
    IF ~avail THEN [value |-> None, err |-> 0, attempts |-> 0, connected |-> isconn]
    ELSE IF ~isconn /\ ~conn
    THEN [value |-> None, err |-> 0, attempts |-> 0, connected |-> FALSE]
    ELSE LET r == read_register_loop(address, 0, outs)
         IN [value |-> r.value, err |-> r.err, attempts |-> r.attempts, connected |-> TRUE]

\* outcome sequences for the operations that read a register as one step: the
\* same outcome three times, or two failures followed by any outcome
OutSeqsOf(values) ==
    { <<o, o, o>> : o \in OutcomesOf(values) }
    \cup { <<[kind |-> f, value |-> 0], [kind |-> f, value |-> 0], o>> :
              f \in {"none"}, o \in OutcomesOf(values) }

-----------------------------------------------------------------------------
(* read_register step by step: one action per loop iteration *)

Addresses == {ENCODER_SINGLE_VALUE, ENCODER_ANGULAR_SPEED, ENCODER_ADDRESS, UNDEFINED_ADDRESS}

\* what one iteration met, as recorded in rr_trace
attempt_kind(address, out) ==
    IF get_register_info_raises(address) THEN "key_error"
    ELSE IF REGISTERS[address].function_code # READ_HOLDING_REGISTERS THEN "not_readable"
    ELSE out.kind

\* entry of read_register: lines 278-285
ReadRegisterCall(address, conn) ==
    /\ rr_pc # "loop"
    /\ error_count < MaxErrors
    /\ rr_address' = address
    /\ rr_trace' = <<>>
    /\ rr_err0' = error_count
    /\ rr_retry' = 0
    /\ IF ~serial_available
       THEN /\ rr_pc' = "returned"
            /\ rr_result' = None
            /\ UNCHANGED dev_connected
       ELSE IF ~dev_connected /\ ~conn
       THEN /\ rr_pc' = "returned"
            /\ rr_result' = None
            /\ UNCHANGED dev_connected
       ELSE /\ rr_pc' = "loop"
            /\ rr_result' = None
            /\ dev_connected' = TRUE
    /\ UNCHANGED <<serial_available, error_count, encoder_resolution,
                   encoder_sampling_time_ms, encVars, encOut>>
    /\ UNCHANGED serverVars

\* one iteration of `for retry in range(3)`: lines 287-349
ReadRegisterAttempt(out) ==
    /\ rr_pc = "loop"
    /\ LET a == read_register_attempt(rr_address, rr_retry, out)
       IN /\ rr_trace' = Append(rr_trace, attempt_kind(rr_address, out))
          /\ IF a.next = "continue"
             THEN /\ rr_retry' = rr_retry + 1
                  /\ UNCHANGED <<rr_pc, rr_result, error_count>>
             ELSE /\ rr_pc' = "returned"
                  /\ rr_result' = a.value
                  /\ error_count' = error_count + a.err
                  /\ UNCHANGED rr_retry
    /\ UNCHANGED <<serial_available, dev_connected, encoder_resolution,
                   encoder_sampling_time_ms, rr_address, rr_err0, encVars, encOut>>
    /\ UNCHANGED serverVars

\* ModbusClient.close (client.py:168-178)
ClientClose ==
    /\ rr_pc # "loop"
    /\ dev_connected
    /\ dev_connected' = FALSE
    /\ UNCHANGED <<serial_available, error_count, encoder_resolution,
                   encoder_sampling_time_ms, rrVars, encVars, encOut>>
    /\ UNCHANGED serverVars

MbInit ==
    /\ dev_connected = FALSE
    /\ error_count = 0
    /\ encoder_resolution = 4096
    /\ encoder_sampling_time_ms = 100

RrInit ==
    /\ rr_pc = "idle"
    /\ rr_address = ENCODER_SINGLE_VALUE
    /\ rr_retry = 0
    /\ rr_result = None
    /\ rr_trace = <<>>
    /\ rr_err0 = 0

EncInit ==
    /\ connected = FALSE
    /\ modbus_client = None
    /\ last_position = None
    /\ current_lap_count = 0
    /\ position_threshold = None
    /\ consecutive_errors = 0

NoRet == [op |-> "none", ok |-> FALSE, value |-> None, speed |-> None, input |-> None,
          prev_last |-> None, prev_laps |-> 0, prev_conn |-> FALSE]

EncOutInit ==
    /\ events = <<>>
    /\ enc_ret = NoRet

OscRet(op) == [op |-> op, fp |-> <<>>, sent |-> {}, from |-> <<>>]
\* the last server operation was a packet from client_address
OscRetFrom(op, client_address) == [OscRet(op) EXCEPT !.from = client_address]

\* OSCServer.__init__ (osc_server.py:86-158) followed by start (488-516).
\* The send thread is started by __init__ while self.running is still False
\* and its loop tests self.running (line 179) unsynchronised with start()
\* setting it: the thread either saw False and has exited for good, or lives.
OscInit ==
    /\ now = 0
    /\ osc_running = TRUE
    /\ send_thread_alive \in BOOLEAN
    /\ clients = <<>>
    /\ message_queue = <<>>
    /\ wire = {}
    /\ refused = {}
    /\ osc_ret = OscRet("none")

\* handler threads of the OSC server that run commands at the same time
Handlers == {1, 2}

\* poll-loop threads that can be created
MaxThreads == 2
ThreadIds == 1..MaxThreads

NoThrLoc == [interval |-> 0, errs |-> 0, data |-> None]

\* EncoderController.__init__ (encoder_controller.py:117-136): no poll thread
ThrInit ==
    /\ enc_lock = [owner |-> None, depth |-> 0]
    /\ stop_monitoring_event = FALSE
    /\ monitoring_thread = None
    /\ connection_monitor = None
    /\ thr_pc = [t \in ThreadIds |-> "unborn"]
    /\ thr_loc = [t \in ThreadIds |-> NoThrLoc]

\* a handler thread with no command
NoCmd == [op |-> "none", source |-> <<>>, interval |-> 0, format |-> "", task_id |-> None]
NoLoc == [existing |-> None, old_thread |-> None, ret |-> "", sm_at |-> "",
          st |-> "", status |-> "", message |-> "", active_tasks |-> <<>>]

\* the handlers idle and the task lock free (main_controller.py:43-44)
HandlersIdle ==
    /\ task_lock = None
    /\ tasks_made = 0
    /\ hpc = [h \in Handlers |-> "idle"]
    /\ hcmd = [h \in Handlers |-> NoCmd]
    /\ hloc = [h \in Handlers |-> NoLoc]

\* MainController.__init__ (main_controller.py:43-44)
MainInit ==
    /\ continuous_tasks = <<>>
    /\ HandlersIdle
    /\ ThrInit

\* the server freshly started, no packet received, no task
ServerIdle ==
    /\ OscInit /\ send_thread_alive = TRUE
    /\ MainInit

InitModbus ==
    /\ serial_available \in BOOLEAN
    /\ MbInit /\ RrInit /\ EncInit /\ EncOutInit
    /\ UnitIdle
    /\ ServerIdle

NextModbus ==
    \/ \E address \in Addresses, conn \in BOOLEAN : ReadRegisterCall(address, conn)
    \/ \E out \in Outcomes : ReadRegisterAttempt(out)
    \/ ClientClose

SpecModbus == InitModbus /\ [][NextModbus]_vars

-----------------------------------------------------------------------------
(* ModbusClient.write_register (client.py:459-544), one call as one step   *)

\* get_actual_baud_rate (registers.py:264-286): the rates of the codes 0..4
baud_map == (0 :> 9600) @@ (1 :> 19200) @@ (2 :> 38400) @@ (3 :> 57600) @@ (4 :> 115200)

\* the range test of write_register (lines 483-488)
out_of_range(register_info, value) ==
    value < register_info.lo \/ value > register_info.hi

\* the two special cases after a good response (lines 523-532)
written_slave_address_kept(address, value, slave) == slave
written_slave_address(address, value, slave) ==
    IF address = ENCODER_ADDRESS THEN value ELSE slave

written_baudrate(address, value, baud) ==
    IF address = BAUD_RATE /\ value \in DOMAIN baud_map THEN baud_map[value] ELSE baud

\* write_register: result is "true", "false" or "raised" (the KeyError of
\* get_register_info at line 475, which is outside the try); conn is whether
\* connect() succeeds when the client is not connected, out what pymodbus'
\* write_register does
write_register(address, value, avail, isconn, conn, out, slave, baud) ==
    LET ret(result, sent, err, c, sl, b) ==
            [result |-> result, sent |-> sent, err |-> err, connected |-> c,
             slave_address |-> sl, baudrate |-> b]
    IN IF ~avail THEN ret("false", FALSE, 0, isconn, slave, baud)
       ELSE IF ~isconn /\ ~conn THEN ret("false", FALSE, 0, FALSE, slave, baud)
       ELSE IF get_register_info_raises(address)
       THEN ret("raised", FALSE, 0, TRUE, slave, baud)
       ELSE IF REGISTERS[address].function_code # WRITE_SINGLE_REGISTER
       THEN ret("false", FALSE, 0, TRUE, slave, baud)
       ELSE IF out_of_range(REGISTERS[address], value)
       THEN ret("false", FALSE, 0, TRUE, slave, baud)
       ELSE IF out.kind = "value"
       THEN ret("true", TRUE, 0, TRUE, written_slave_address(address, value, slave),
                written_baudrate(address, value, baud))
       ELSE ret("false", TRUE, 1, TRUE, slave, baud)

\* addresses and values write_register is called with
WriteAddresses ==
    {ENCODER_SINGLE_VALUE, ENCODER_ADDRESS, BAUD_RATE, AUTO_RESPONSE_TIME, RESET_ZERO_FLAG,
     VALUE_INCREASE_DIRECTION, SAMPLING_TIME, UNDEFINED_ADDRESS}
WriteValues == {0, 1, 4, 19, 20, 255, 256}

\* what pymodbus' write_register can do: a response, no response, or an
\* exception
WriteOutcomes == [kind : {"value", "none", "modbus_exc"}, value : {0}]

WriteRegister(address, value, conn, out) ==
    /\ rr_pc # "loop"
    /\ error_count < MaxErrors
    /\ LET r == write_register(address, value, serial_available, dev_connected, conn, out,
                               slave_address, baudrate)
       IN /\ dev_connected' = r.connected
          /\ error_count' = error_count + r.err
          /\ slave_address' = r.slave_address
          /\ baudrate' = r.baudrate
          /\ wr_ret' = [op |-> "write", address |-> address, value |-> value,
                        result |-> r.result, sent |-> r.sent, err |-> r.err,
                        slave0 |-> slave_address, baud0 |-> baudrate]
    /\ UNCHANGED <<serial_available, encoder_resolution, encoder_sampling_time_ms>>
    /\ UNCHANGED <<rrVars, encVars, encOut, oscVars, mainVars, thrVars, crcVars, pollVars,
                   cmVars, sessVars, evVars, sdVars, txVars, lateVars>>

\* calls of write_register on a client that may be closed between them
NextWrite ==
    \/ \E address \in WriteAddresses, value \in WriteValues, conn \in BOOLEAN,
          out \in WriteOutcomes : WriteRegister(address, value, conn, out)
    \/ ClientClose

SpecWrite == InitModbus /\ [][NextWrite]_vars

-----------------------------------------------------------------------------
(* Typed accessors of ModbusClient (client.py:678-718) and the pure parts   *)
(* of EncoderController (encoder_controller.py:383-466)                     *)

\* the raw register taken as an unsigned number
to_signed16_unsigned(speed_value) == speed_value

\* the 16-bit two's-complement reading of a raw register: lines 711-712
to_signed16(speed_value) ==
    IF speed_value > 32767 THEN speed_value - 65536 ELSE speed_value

\* read_encoder_speed's conversion (line 716): speed_value / resolution /
\* (sampling_time_ms / 60000), kept exact as the fraction <<numerator, denominator>>
actual_speed(speed_value, resolution, sampling_time_ms) ==
    <<to_signed16(speed_value) * 60000, resolution * sampling_time_ms>>

\* get_direction's decision on a speed n/d (d > 0), lines 455-462:
\* abs(speed) < 1.0 -> 0, speed > 0 -> 1, else -1
direction_of(speed) ==
    IF Abs(speed[1]) < speed[2] THEN 0
    ELSE IF speed[1] > 0 THEN 1
    ELSE -1

\* the default wrap threshold of _update_lap_count (line 398)
DEFAULT_THRESHOLD == 2048

Ev(name, laps, position, direction) ==
    [name |-> name, laps |-> laps, position |-> position, direction |-> direction]

\* update_lap_count with the two wrap directions exchanged
update_lap_count_swapped(current_position, last, laps, thr) ==
    LET thr1 == IF thr = None THEN Some(DEFAULT_THRESHOLD) ELSE thr
    IN IF last = None
       THEN [last |-> Some(current_position), laps |-> laps, thr |-> thr1, ev |-> <<>>]
       ELSE LET pos_diff == current_position - Val(last)
            IN IF Abs(pos_diff) > Val(thr1)
               THEN IF pos_diff > 0
                    THEN [last |-> Some(current_position), laps |-> laps + 1, thr |-> thr1,
                          ev |-> <<Ev("on_lap_change", laps + 1, current_position, "clockwise")>>]
                    ELSE [last |-> Some(current_position), laps |-> laps - 1, thr |-> thr1,
                          ev |-> <<Ev("on_lap_change", laps - 1, current_position, "counterclockwise")>>]
               ELSE [last |-> Some(current_position), laps |-> laps, thr |-> thr1, ev |-> <<>>]

\* _update_lap_count (encoder_controller.py:383-430) on the lap state
\* (last, laps, thr): the new lap state and the events it triggers
update_lap_count(current_position, last, laps, thr) ==
    LET thr1 == IF thr = None THEN Some(DEFAULT_THRESHOLD) ELSE thr
    IN IF last = None
       THEN [last |-> Some(current_position), laps |-> laps, thr |-> thr1, ev |-> <<>>]
       ELSE LET pos_diff == current_position - Val(last)
            IN IF Abs(pos_diff) > Val(thr1)
               THEN IF pos_diff < 0
                    THEN [last |-> Some(current_position), laps |-> laps + 1, thr |-> thr1,
                          ev |-> <<Ev("on_lap_change", laps + 1, current_position, "clockwise")>>]
                    ELSE [last |-> Some(current_position), laps |-> laps - 1, thr |-> thr1,
                          ev |-> <<Ev("on_lap_change", laps - 1, current_position, "counterclockwise")>>]
               ELSE [last |-> Some(current_position), laps |-> laps, thr |-> thr1, ev |-> <<>>]

-----------------------------------------------------------------------------
(* EncoderController operations called one at a time (no poll loop)        *)

\* generations of ModbusClient objects created by connect
MaxClients == 2

\* (resolution, sampling time) pairs given to set_encoder_config
Configs == {<<4096, 100>>, <<1000, 60>>, <<1000, 600>>}

\* the number of ModbusClient objects constructed so far; the current one is
\* the latest
clients_made == IF modbus_client = None THEN 0 ELSE Val(modbus_client)

Ret(op, ok, value, speed, input, pl, plaps, pconn) ==
    [op |-> op, ok |-> ok, value |-> value, speed |-> speed, input |-> input,
     prev_last |-> pl, prev_laps |-> plaps, prev_conn |-> pconn]

\* the wrap threshold left as the whole resolution
whole_resolution(resolution) == resolution

\* the wrap threshold connect sets (line 172): encoder_resolution / 2
half_resolution(resolution) == resolution \div 2

\* EncoderController.connect (lines 138-188) when no connection monitor is
\* requested: ctor_ok is whether ModbusClient(...) returns, avail whether the
\* serial port could be opened, conn_ok whether the device connect succeeds
Connect(ctor_ok, avail, conn_ok) ==
    /\ rr_pc # "loop"
    /\ IF ~ctor_ok
       THEN /\ events' = <<Ev("on_connection_failed", 0, 0, "")>>
            /\ enc_ret' = Ret("connect", FALSE, None, None, None,
                              last_position, current_lap_count, connected)
            /\ UNCHANGED <<mbVars, encVars>>
       ELSE /\ clients_made < MaxClients
            /\ modbus_client' = Some(clients_made + 1)
            /\ serial_available' = avail
            /\ dev_connected' = (avail /\ conn_ok)
            /\ error_count' = 0
            /\ encoder_resolution' = 4096
            /\ encoder_sampling_time_ms' = 100
            /\ connected' = (avail /\ conn_ok)
            /\ IF avail /\ conn_ok
               THEN /\ current_lap_count' = 0
                    /\ last_position' = None
                    /\ consecutive_errors' = 0
                    /\ position_threshold' = Some(half_resolution(4096))
                    /\ events' = <<Ev("on_connected", 0, 0, "")>>
               ELSE /\ UNCHANGED <<current_lap_count, last_position,
                                   consecutive_errors, position_threshold>>
                    /\ events' = <<Ev("on_connection_failed", 0, 0, "")>>
            /\ enc_ret' = Ret("connect", avail /\ conn_ok, None, None, None,
                              last_position, current_lap_count, connected)
    /\ UNCHANGED rrVars
    /\ UNCHANGED serverVars

\* ModbusClient.set_encoder_config (client.py:831-839)
SetEncoderConfig(cfg) ==
    /\ rr_pc # "loop"
    /\ modbus_client # None
    /\ encoder_resolution' = cfg[1]
    /\ encoder_sampling_time_ms' = cfg[2]
    /\ events' = <<>>
    /\ enc_ret' = Ret("set_encoder_config", TRUE, None, None, None,
                      last_position, current_lap_count, connected)
    /\ UNCHANGED <<serial_available, dev_connected, error_count, rrVars, encVars>>
    /\ UNCHANGED serverVars

\* EncoderController.read_position (lines 220-247)
ReadPosition(conn, outs) ==
    /\ rr_pc # "loop"
    /\ Abs(current_lap_count) < MaxLaps
    /\ IF ~connected
       THEN /\ enc_ret' = Ret("read_position", FALSE, None, None, None,
                              last_position, current_lap_count, connected)
            /\ events' = <<>>
            /\ UNCHANGED <<mbVars, encVars>>
       ELSE LET r == read_register(ENCODER_SINGLE_VALUE, serial_available,
                                   dev_connected, conn, outs)
            IN /\ error_count + r.err <= MaxErrors
               /\ error_count' = error_count + r.err
               /\ dev_connected' = r.connected
               /\ IF r.value = None
                  THEN /\ consecutive_errors < MaxErrors
                       /\ consecutive_errors' = consecutive_errors + 1
                       /\ events' = <<>>
                       /\ enc_ret' = Ret("read_position", FALSE, None, None, None,
                                         last_position, current_lap_count, connected)
                       /\ UNCHANGED <<last_position, current_lap_count, position_threshold>>
                  ELSE LET u == update_lap_count(Val(r.value), last_position,
                                                 current_lap_count, position_threshold)
                       IN /\ consecutive_errors' = 0
                          /\ last_position' = u.last
                          /\ current_lap_count' = u.laps
                          /\ position_threshold' = u.thr
                          /\ events' = u.ev
                          /\ enc_ret' = Ret("read_position", TRUE, r.value, None, None,
                                            last_position, current_lap_count, connected)
               /\ UNCHANGED <<serial_available, encoder_resolution,
                              encoder_sampling_time_ms, connected, modbus_client>>
    /\ UNCHANGED rrVars
    /\ UNCHANGED serverVars

\* EncoderController.read_speed (lines 322-344) on the outcome r of
\* read_register(ENCODER_ANGULAR_SPEED): <<success, speed>> and the new
\* consecutive_errors
read_speed(r, resolution, sampling_time_ms, errs) ==
    IF r.value = None
    THEN [ok |-> FALSE, speed |-> None, errs |-> errs + 1]
    ELSE [ok |-> TRUE, speed |-> actual_speed(Val(r.value), resolution, sampling_time_ms),
          errs |-> 0]

\* EncoderController.get_direction (lines 442-466) on read_speed's result
get_direction(isconn, rs) ==
    IF ~isconn THEN 0
    ELSE IF rs.ok /\ rs.speed # None THEN direction_of(rs.speed)
    ELSE 0

GetDirection(conn, outs) ==
    /\ rr_pc # "loop"
    /\ events' = <<>>
    /\ IF ~connected
       THEN /\ enc_ret' = Ret("get_direction", FALSE, Some(get_direction(FALSE, None)),
                              None, None, last_position, current_lap_count, connected)
            /\ UNCHANGED <<mbVars, encVars>>
       ELSE LET r == read_register(ENCODER_ANGULAR_SPEED, serial_available,
                                   dev_connected, conn, outs)
                rs == read_speed(r, encoder_resolution, encoder_sampling_time_ms,
                                 consecutive_errors)
            IN /\ error_count + r.err <= MaxErrors
               /\ rs.errs <= MaxErrors
               /\ error_count' = error_count + r.err
               /\ dev_connected' = r.connected
               /\ consecutive_errors' = rs.errs
               /\ enc_ret' = Ret("get_direction", rs.ok, Some(get_direction(TRUE, rs)),
                                 rs.speed, r.value, last_position, current_lap_count,
                                 connected)
               /\ UNCHANGED <<serial_available, encoder_resolution, encoder_sampling_time_ms,
                              connected, modbus_client, last_position, current_lap_count,
                              position_threshold>>
    /\ UNCHANGED rrVars
    /\ UNCHANGED serverVars

\* EncoderController.disconnect (lines 945-996) when no poll loop and no
\* connection monitor exists
Disconnect ==
    /\ rr_pc # "loop"
    /\ modbus_client' = None
    /\ dev_connected' = FALSE
    /\ connected' = FALSE
    /\ events' = <<Ev("on_disconnected", 0, 0, "")>>
    /\ enc_ret' = Ret("disconnect", TRUE, None, None, None,
                      last_position, current_lap_count, connected)
    /\ UNCHANGED <<serial_available, error_count, encoder_resolution,
                   encoder_sampling_time_ms, last_position, current_lap_count,
                   position_threshold, consecutive_errors, rrVars>>
    /\ UNCHANGED serverVars

\* read_register reconnects only when the client is not connected
\* (client.py:283-286); the outcome of that connect attempt
ReconnectOutcomes == IF dev_connected THEN {TRUE} ELSE BOOLEAN

InitEncoder ==
    /\ serial_available = FALSE
    /\ MbInit /\ RrInit /\ EncInit /\ EncOutInit
    /\ UnitIdle
    /\ ServerIdle

NextEncoder ==
    \/ \E ctor_ok, avail, conn_ok \in BOOLEAN : Connect(ctor_ok, avail, conn_ok)
    \/ \E cfg \in Configs : SetEncoderConfig(cfg)
    \/ \E conn \in ReconnectOutcomes, outs \in OutSeqsOf(Positions) :
           ReadPosition(conn, outs)
    \/ \E conn \in ReconnectOutcomes, outs \in OutSeqsOf(RawSpeeds) :
           GetDirection(conn, outs)
    \/ Disconnect

SpecEncoder == InitEncoder /\ [][NextEncoder]_vars

-----------------------------------------------------------------------------
(* The ModbusClient objects a controller makes over a sequence of connect  *)
(* and disconnect calls, with the connection monitor enabled (the default  *)
(* of connect, which _handle_connect uses).  ModbusClient.__init__ opens   *)
(* serial.Serial on the port (client.py:91-111); close() closes it when    *)
(* the client is connected (client.py:168-178).                            *)

\* the clients something still refers to: the controller's and the one the
\* connection monitor was built on
referenced(client, device) ==
    (IF client = None THEN {} ELSE {Val(client)})
    \cup (IF device = None THEN {} ELSE {Val(device)})

\* the number of the next client object
fresh_client ==
    LET used == open_handles \cup referenced(modbus_client, monitor_device)
    IN IF used = {} THEN 1 ELSE 1 + (CHOOSE n \in used : \A m \in used : m <= n)

\* ModbusClient.close (client.py:168-178): the handles open afterwards
close(handles, client, avail, isconn) ==
    IF isconn /\ avail THEN handles \ {client} ELSE handles

\* EncoderController.connect (lines 138-188) with enable_monitor: ctor_ok is
\* whether ModbusClient(...) returns, avail whether it could open the port,
\* conn_ok whether the device connect succeeds.  The client the controller
\* had is not closed.
ConnectMonitored(ctor_ok, avail, conn_ok) ==
    /\ rr_pc # "loop"
    /\ IF ~ctor_ok
       THEN /\ events' = <<Ev("on_connection_failed", 0, 0, "")>>
            /\ enc_ret' = Ret("connect", FALSE, None, None, None,
                              last_position, current_lap_count, connected)
            /\ UNCHANGED <<mbVars, encVars, connection_monitor, sessVars>>
       ELSE /\ fresh_client <= MaxClients
            /\ modbus_client' = Some(fresh_client)
            /\ open_handles' = IF avail THEN open_handles \cup {fresh_client}
                               ELSE open_handles
            /\ serial_available' = avail
            /\ dev_connected' = (avail /\ conn_ok)
            /\ error_count' = 0
            /\ encoder_resolution' = 4096
            /\ encoder_sampling_time_ms' = 100
            /\ connected' = (avail /\ conn_ok)
            /\ IF avail /\ conn_ok
               THEN /\ current_lap_count' = 0
                    /\ last_position' = None
                    /\ consecutive_errors' = 0
                    /\ position_threshold' = Some(half_resolution(4096))
                    /\ IF connection_monitor = None
                       THEN /\ connection_monitor' = Some(1)
                            /\ monitor_device' = Some(fresh_client)
                       ELSE UNCHANGED <<connection_monitor, monitor_device>>
                    /\ events' = <<Ev("on_connected", 0, 0, "")>>
               ELSE /\ UNCHANGED <<current_lap_count, last_position, consecutive_errors,
                                   position_threshold, connection_monitor,
                                   monitor_device>>
                    /\ events' = <<Ev("on_connection_failed", 0, 0, "")>>
            /\ enc_ret' = Ret("connect", avail /\ conn_ok, None, None, None,
                              last_position, current_lap_count, connected)
    /\ UNCHANGED <<rrVars, oscVars, mainVars>>
    /\ UNCHANGED <<enc_lock, stop_monitoring_event, monitoring_thread, thr_pc, thr_loc>>
    /\ UNCHANGED <<crcVars, pollVars, cmVars, wrVars, evVars, sdVars, txVars, lateVars>>

\* EncoderController.disconnect (lines 945-996), no poll loop running
DisconnectMonitored ==
    /\ rr_pc # "loop"
    /\ connection_monitor' = None
    /\ monitor_device' = None
    /\ open_handles' = IF modbus_client = None THEN open_handles
                       ELSE close(open_handles, Val(modbus_client), serial_available,
                                  dev_connected)
    /\ modbus_client' = None
    /\ dev_connected' = FALSE
    /\ connected' = FALSE
    /\ events' = <<Ev("on_disconnected", 0, 0, "")>>
    /\ enc_ret' = Ret("disconnect", TRUE, None, None, None,
                      last_position, current_lap_count, connected)
    /\ UNCHANGED <<serial_available, error_count, encoder_resolution,
                   encoder_sampling_time_ms, last_position, current_lap_count,
                   position_threshold, consecutive_errors>>
    /\ UNCHANGED <<rrVars, oscVars, mainVars>>
    /\ UNCHANGED <<enc_lock, stop_monitoring_event, monitoring_thread, thr_pc, thr_loc>>
    /\ UNCHANGED <<crcVars, pollVars, cmVars, wrVars, evVars, sdVars, txVars, lateVars>>

\* the runtime finalizes a client nothing refers to any more, which closes
\* its serial.Serial; when it does so is up to the runtime
Finalize(client) ==
    /\ client \in open_handles
    /\ client \notin referenced(modbus_client, monitor_device)
    /\ open_handles' = open_handles \ {client}
    /\ UNCHANGED monitor_device
    /\ UNCHANGED <<coreVars, crcVars, pollVars, cmVars, wrVars, evVars, sdVars, txVars, lateVars>>

NextSession ==
    \/ \E ctor_ok, avail, conn_ok \in BOOLEAN : ConnectMonitored(ctor_ok, avail, conn_ok)
    \/ DisconnectMonitored
    \/ \E client \in 1..MaxClients : Finalize(client)
    \/ \E conn \in ReconnectOutcomes, outs \in OutSeqsOf(Positions) :
           ReadPosition(conn, outs)

SpecSession == InitEncoder /\ [][NextSession]_vars

-----------------------------------------------------------------------------
(* The listeners of the controller's events and one publisher.  A callback *)
(* is a number; what it does when called, return or raise, is the          *)
(* environment's choice at each call.  Other threads, and the callbacks    *)
(* themselves, may register listeners while a publication is running.      *)

Callbacks == {1, 2}
MaxListeners == 2
MaxCycles == 2

notEvVars == <<coreVars, crcVars, pollVars, cmVars, wrVars, sessVars, sdVars, txVars, lateVars>>

\* an exception of a callback that nothing catches reaches the publisher
escapes_uncaught(raised) == raised

\* whether an exception of a callback leaves _trigger_event: the call is in
\* try / except Exception (lines 699-703)
escapes(raised) == FALSE

\* register_event_listener (lines 672-684)
RegisterEventListener(event_name, callback) ==
    /\ Len(event_listeners[event_name]) < MaxListeners
    /\ event_listeners' = [event_listeners EXCEPT ![event_name] = Append(@, callback)]
    /\ UNCHANGED <<ev_pc, ev_name, ev_listeners, ev_at_pub, ev_calls, ev_raised, ev_cycles>>
    /\ UNCHANGED notEvVars

\* _trigger_event, lines 693-697: the listeners of the event are copied
\* under the lock
TriggerEvent(event_name) ==
    /\ ev_pc \in {"idle", "done"}
    /\ ev_cycles < MaxCycles
    /\ ev_pc' = "calling"
    /\ ev_name' = event_name
    /\ ev_listeners' = event_listeners[event_name]
    /\ ev_at_pub' = event_listeners[event_name]
    /\ ev_calls' = <<>>
    /\ ev_raised' = {}
    /\ UNCHANGED <<event_listeners, ev_cycles>>
    /\ UNCHANGED notEvVars

\* _trigger_event, lines 699-703: the next callback of the copy is called
TriggerCallback(raised) ==
    /\ ev_pc = "calling"
    /\ Len(ev_calls) < Len(ev_listeners)
    /\ ev_calls' = Append(ev_calls, ev_listeners[Len(ev_calls) + 1])
    /\ ev_raised' = IF raised THEN ev_raised \cup {Len(ev_calls) + 1} ELSE ev_raised
    /\ ev_pc' = IF escapes(raised) THEN "escaped" ELSE "calling"
    /\ UNCHANGED <<event_listeners, ev_name, ev_listeners, ev_at_pub, ev_cycles>>
    /\ UNCHANGED notEvVars

\* _trigger_event returns to its caller: for on_data_update the poll loop,
\* which goes on to wait for its next cycle (lines 590-593)
TriggerReturn ==
    /\ ev_pc = "calling"
    /\ Len(ev_calls) = Len(ev_listeners)
    /\ ev_pc' = "done"
    /\ ev_cycles' = ev_cycles + 1
    /\ UNCHANGED <<event_listeners, ev_name, ev_listeners, ev_at_pub, ev_calls, ev_raised>>
    /\ UNCHANGED notEvVars

NextEvents ==
    \/ \E event_name \in EventNames, callback \in Callbacks :
           RegisterEventListener(event_name, callback)
    \/ \E event_name \in EventNames : TriggerEvent(event_name)
    \/ \E raised \in BOOLEAN : TriggerCallback(raised)
    \/ TriggerReturn

SpecEvents == InitEncoder /\ [][NextEvents]_vars

-----------------------------------------------------------------------------
(* MainController.shutdown over the worker threads, the serial handle and  *)
(* the UDP socket.  Every join in the code has a timeout (1, 2 or 3 s), so *)
(* whether the joined thread has ended when the join returns is the        *)
(* environment's choice.                                                   *)

notSdVars == <<coreVars, crcVars, pollVars, cmVars, wrVars, sessVars, evVars, txVars, lateVars>>

\* a join with a timeout: the threads alive after joining t
joined(alive_threads, t, ended) == IF ended THEN alive_threads \ {t} ELSE alive_threads

\* the steps stop_monitoring adds to the record, and the threads alive after
\* it (encoder_controller.py:637-669): nothing when no poll loop is alive
stop_monitoring_steps(alive_threads) ==
    IF "poll" \in alive_threads THEN <<"stop_poll">> ELSE <<>>

\* OSCServer.start (osc_server.py:484-518)
SdOscStart ==
    /\ sd_pc = "running"
    /\ ~sd_osc_running
    /\ sd_osc_running' = TRUE
    /\ sd_udp_open' = TRUE
    /\ sd_alive' = sd_alive \cup {"server", "heartbeat"}
    /\ UNCHANGED <<sd_pc, sd_serial_open, sd_tasks, sd_order, sd_alive_at_close>>
    /\ UNCHANGED notSdVars

\* a successful EncoderController.connect (lines 138-188): the handle is
\* open and the connection monitor runs
SdConnect ==
    /\ sd_pc = "running"
    /\ ~sd_serial_open
    /\ sd_serial_open' = TRUE
    /\ sd_alive' = sd_alive \cup {"supervisor"}
    /\ UNCHANGED <<sd_pc, sd_osc_running, sd_udp_open, sd_tasks, sd_order, sd_alive_at_close>>
    /\ UNCHANGED notSdVars

\* a successful start_monitor command (main_controller.py:1036-1123): the
\* poll loop runs and a task is recorded
SdStartMonitor ==
    /\ sd_pc = "running"
    /\ sd_serial_open
    /\ "poll" \notin sd_alive
    /\ sd_alive' = sd_alive \cup {"poll"}
    /\ sd_tasks' = TRUE
    /\ UNCHANGED <<sd_pc, sd_osc_running, sd_udp_open, sd_serial_open, sd_order,
                   sd_alive_at_close>>
    /\ UNCHANGED notSdVars

\* a thread ends by itself: the poll loop after too many errors
\* (encoder_controller.py:599-605), any other once it has been told to stop
SdThreadExit(t) ==
    /\ t \in sd_alive
    /\ \/ t = "poll"
       \/ t \in {"heartbeat", "sender", "server"} /\ sd_pc \in {"encoder", "finished"}
             /\ ~sd_osc_running
       \/ t = "supervisor" /\ sd_pc = "finished"
    /\ sd_alive' = sd_alive \ {t}
    /\ UNCHANGED <<sd_pc, sd_osc_running, sd_udp_open, sd_serial_open, sd_tasks, sd_order,
                   sd_alive_at_close>>
    /\ UNCHANGED notSdVars

\* shutdown, lines 290-299: every task is stopped; stopping the last encoder
\* task calls stop_monitoring (lines 1298-1318)
ShutdownTasks(poll_ended) ==
    /\ sd_pc = "running"
    /\ sd_pc' = "osc"
    /\ IF sd_tasks
       THEN /\ sd_order' = sd_order \o stop_monitoring_steps(sd_alive)
            /\ sd_alive' = joined(sd_alive, "poll", poll_ended)
       ELSE UNCHANGED <<sd_order, sd_alive>>
    /\ sd_tasks' = FALSE
    /\ UNCHANGED <<sd_osc_running, sd_udp_open, sd_serial_open, sd_alive_at_close>>
    /\ UNCHANGED notSdVars

\* shutdown, lines 301-309: OSCServer.stop (osc_server.py:558-622) tells the
\* heartbeat to stop and joins it, joins the sender, then shuts the server
\* down and closes its socket in a helper thread it waits 3 s for
ShutdownOsc(heartbeat_ended, sender_ended, server_closed) ==
    /\ sd_pc = "osc"
    /\ sd_pc' = "encoder"
    /\ IF ~sd_osc_running
       THEN UNCHANGED <<sd_osc_running, sd_order, sd_alive, sd_udp_open>>
       ELSE /\ sd_osc_running' = FALSE
            /\ sd_order' = sd_order \o <<"stop_heartbeat">>
                   \o (IF "sender" \in sd_alive THEN <<"stop_sender">> ELSE <<>>)
                   \o (IF server_closed THEN <<"close_udp">> ELSE <<>>)
            /\ sd_alive' = joined(joined(joined(sd_alive, "heartbeat", heartbeat_ended),
                                         "sender", sender_ended),
                                  "server", server_closed)
            /\ sd_udp_open' = ~server_closed
    /\ UNCHANGED <<sd_serial_open, sd_tasks, sd_alive_at_close>>
    /\ UNCHANGED notSdVars

\* shutdown, lines 311-322: stop_monitoring, then disconnect
\* (encoder_controller.py:945-996), which stops the connection monitor
\* (join of 1 s), stops the poll loop again when it is still alive (wait of
\* 3 s) and closes the client
ShutdownEncoder(poll_ended, supervisor_ended, poll_ended_late) ==
    /\ sd_pc = "encoder"
    /\ sd_pc' = "finished"
    /\ LET alive1 == joined(sd_alive, "poll", poll_ended)
           steps1 == stop_monitoring_steps(sd_alive)
           steps2 == IF "supervisor" \in alive1 THEN <<"stop_supervisor">> ELSE <<>>
           alive2 == joined(alive1, "supervisor", supervisor_ended)
           steps3 == stop_monitoring_steps(alive2)
           alive3 == joined(alive2, "poll", poll_ended_late)
       IN /\ sd_alive' = alive3
          /\ sd_order' = sd_order \o steps1 \o steps2 \o steps3
                 \o (IF sd_serial_open THEN <<"close_serial">> ELSE <<>>)
          /\ sd_alive_at_close' = IF sd_serial_open THEN alive3 ELSE sd_alive_at_close
    /\ sd_serial_open' = FALSE
    /\ UNCHANGED <<sd_osc_running, sd_udp_open, sd_tasks>>
    /\ UNCHANGED notSdVars

NextShutdown ==
    \/ SdOscStart
    \/ SdConnect
    \/ SdStartMonitor
    \/ \E t \in {"heartbeat", "sender", "server", "poll", "supervisor"} : SdThreadExit(t)
    \/ \E poll_ended \in BOOLEAN : ShutdownTasks(poll_ended)
    \/ \E heartbeat_ended, sender_ended, server_closed \in BOOLEAN :
           ShutdownOsc(heartbeat_ended, sender_ended, server_closed)
    \/ \E poll_ended, supervisor_ended, poll_ended_late \in BOOLEAN :
           ShutdownEncoder(poll_ended, supervisor_ended, poll_ended_late)

SpecShutdown == InitEncoder /\ [][NextShutdown]_vars

-----------------------------------------------------------------------------
(* OSCServer: the client registry and the two ways a datagram leaves        *)
(* (osc_server.py)                                                          *)

\* the default return port (osc_server.py:90)
return_port == 9999

\* broadcast's expiry window, 300 s (line 1334), and _cleanup_clients',
\* 900 s (line 1274), in milliseconds
BROADCAST_EXPIRY_MS == 300 * 1000
CLEANUP_EXPIRY_MS == 900 * 1000

\* (ip, source port) pairs packets arrive from; one of them sends from the
\* return port itself
ClientAddrs == {<<1, 5000>>, <<1, 9999>>, <<2, 5000>>}

\* what SimpleUDPClient.send_message does for one datagram: it is sent
\* ("ok"); it raises ConnectionRefusedError or an OSError saying there is no
\* route or the network is unreachable ("unreachable": lines 406-419 treat the
\* three alike); or it raises anything else ("error")
SendOutcomes == {"ok", "unreachable", "error"}

MaxQueue == 1
MaxNow == 900001

\* the address rewrite applied by send_response (1312-1314), _send_data
\* (227-229) and broadcast (1348-1349): keep the ip, use the return port
retarget_source_port(client_address) == client_address

retarget(client_address) == <<client_address[1], return_port>>

\* f"{ip}:{port}"; the pair itself stands for the string
client_key(client_address) == client_address

has_key(cl, k) == \E i \in 1..Len(cl) : cl[i].key = k
del_key(cl, k) == SelectSeq(cl, LAMBDA e : e.key # k)
key_index(cl, k) == CHOOSE i \in 1..Len(cl) : cl[i].key = k

\* the server's mutable collections as one value
Osc(cl, q, w) == [clients |-> cl, queue |-> q, wire |-> w, refused |-> {}]

\* send_response (1287-1318) with a client address given: the rewritten
\* address is queued; origin remembers the address the caller passed
send_response(S, data, client_address, format_type) ==
    [S EXCEPT !.queue = Append(@, [addr |-> retarget(client_address), data |-> data,
                                   format |-> format_type, origin |-> client_address])]

RECURSIVE notify_system(_, _, _)
notify_system(S, cl, i) ==
    IF i > Len(cl) THEN S
    ELSE notify_system(IF "system" \in cl[i].subscribe
                       THEN send_response(S, "client_disconnected", cl[i].address, "json")
                       ELSE S,
                       cl, i + 1)

\* _remove_disconnected_client (428-454): the key is built from the address
\* _send_data failed on, which _send_data has already rewritten
remove_disconnected_client(S, client_address) ==
    IF has_key(S.clients, client_key(client_address))
    THEN LET cl == del_key(S.clients, client_key(client_address))
             S1 == [S EXCEPT !.clients = cl]
         IN IF Len(cl) > 0 /\ osc_running THEN notify_system(S1, cl, 1) ELSE S1
    ELSE S

\* _send_data (206-425) for a two-element address: <<new collections, success>>
send_data(S, client_address, origin, via, outcome) ==
    LET addr == retarget(client_address)
    IN CASE outcome = "ok" ->
                <<[S EXCEPT !.wire = @ \cup {[to |-> addr, origin |-> origin, via |-> via]}],
                  TRUE>>
         [] outcome = "unreachable" ->
                <<remove_disconnected_client([S EXCEPT !.refused = @ \cup {origin}], addr),
                  FALSE>>
         [] OTHER -> <<S, FALSE>>

\* broadcast (1321-1369): the loop over list(self.clients.items()), entry i of
\* the snapshot snap onwards; failed collects failed_clients
RECURSIVE broadcast_loop(_, _, _, _, _)
broadcast_loop(S, snap, i, failed, outs) ==
    IF i > Len(snap) THEN [S |-> S, failed |-> failed]
    ELSE IF now - snap[i].last_seen > BROADCAST_EXPIRY_MS
         THEN broadcast_loop(S, snap, i + 1, failed \cup {snap[i].key}, outs)
         ELSE LET client_addr == retarget(snap[i].address)
                  r == send_data(S, client_addr, snap[i].address, "broadcast",
                                 outs[snap[i].key])
              IN broadcast_loop(r[1], snap, i + 1,
                                IF r[2] THEN failed ELSE failed \cup {snap[i].key}, outs)

broadcast(S, outs) ==
    LET r == broadcast_loop(S, S.clients, 1, {}, outs)
    IN [r.S EXCEPT !.clients = SelectSeq(@, LAMBDA e : e.key \notin r.failed)]

\* _cleanup_clients (1271-1284)
cleanup_clients(cl) ==
    SelectSeq(cl, LAMBDA e : ~(now - e.last_seen > CLEANUP_EXPIRY_MS))

\* _update_client (1243-1269)
update_client(cl, client_address) ==
    LET k == client_key(client_address)
        cl1 == IF has_key(cl, k)
               THEN [cl EXCEPT ![key_index(cl, k)].last_seen = now]
               ELSE Append(cl, [key |-> k, address |-> client_address, last_seen |-> now,
                                subscribe |-> {}])
    IN cleanup_clients(cl1)

\* the keys of the registry
registered == {clients[i].key : i \in 1..Len(clients)}

\* the collections after an operation; the wire holds that operation's datagrams
SetOsc(S) ==
    /\ Len(S.queue) <= MaxQueue
    /\ clients' = S.clients
    /\ message_queue' = S.queue
    /\ wire' = S.wire
    /\ refused' = S.refused

\* a /whoami packet from client_address: _whoami_handler (1198-1241)
WhoAmI(client_address) ==
    /\ osc_running
    /\ SetOsc(send_response(Osc(update_client(clients, client_address), message_queue, {}),
                            "device_info", client_address, "json"))
    /\ osc_ret' = OscRetFrom("whoami", client_address)
    /\ UNCHANGED <<now, osc_running, send_thread_alive, mainVars, thrVars, unitVars>>
    /\ UNCHANGED <<mbVars, rrVars, encVars, encOut>>

\* an "/encoder subscribe system" packet: _encoder_handler (732-744, 766-782)
EncoderSubscribe(client_address) ==
    /\ osc_running
    /\ LET cl == update_client(clients, client_address)
           k == client_key(client_address)
           cl1 == IF has_key(cl, k)
                  THEN [cl EXCEPT ![key_index(cl, k)].subscribe = @ \cup {"system"}]
                  ELSE Append(cl, [key |-> k, address |-> client_address,
                                   last_seen |-> now, subscribe |-> {"system"}])
       IN SetOsc(send_response(Osc(cl1, message_queue, {}), "subscribed",
                               client_address, "osc"))
    /\ osc_ret' = OscRetFrom("subscribe", client_address)
    /\ UNCHANGED <<now, osc_running, send_thread_alive, mainVars, thrVars, unitVars>>
    /\ UNCHANGED <<mbVars, rrVars, encVars, encOut>>

\* an /encoder/read_speed packet: _encoder_read_speed_handler (894-911), which
\* does not call _update_client.  With the controller not connected
\* read_speed returns at once (encoder_controller.py:328-329) and
\* _handle_read_speed hands the error to _send_encoder_response
\* (main_controller.py:705-711, 1611-1635), which broadcasts it; the handler
\* then queues the same result for the sender
EncoderReadSpeed(client_address, outs) ==
    /\ osc_running
    /\ ~connected
    /\ \A a \in ClientAddrs \ registered : outs[a] = "ok"
    /\ SetOsc(send_response(broadcast(Osc(clients, message_queue, {}), outs),
                            "speed", client_address, "osc"))
    /\ osc_ret' = OscRetFrom("read_speed", client_address)
    /\ UNCHANGED <<now, osc_running, send_thread_alive, mainVars, thrVars, unitVars>>
    /\ UNCHANGED <<mbVars, rrVars, encVars, encOut>>

\* one round of _send_worker (176-204): take a message, hand it to _send_data
SendWorker(outcome) ==
    /\ send_thread_alive /\ osc_running
    /\ message_queue # <<>>
    /\ LET m == Head(message_queue)
       IN SetOsc(send_data(Osc(clients, Tail(message_queue), {}), m.addr, m.origin,
                           "reply", outcome)[1])
    /\ osc_ret' = OscRet("send")
    /\ UNCHANGED <<now, osc_running, send_thread_alive, mainVars, thrVars, unitVars>>
    /\ UNCHANGED <<mbVars, rrVars, encVars, encOut>>

\* one round of heartbeat_task (520-556): a broadcast of the heartbeat
Heartbeat(outs) ==
    /\ osc_running
    /\ \A a \in ClientAddrs \ registered : outs[a] = "ok"
    /\ SetOsc(broadcast(Osc(clients, message_queue, {}), outs))
    /\ osc_ret' = OscRet("broadcast")
    /\ UNCHANGED <<now, osc_running, send_thread_alive, mainVars, thrVars, unitVars>>
    /\ UNCHANGED <<mbVars, rrVars, encVars, encOut>>

\* time passes, up to limit
Tick(dt, limit) ==
    /\ now + dt <= limit
    /\ now' = now + dt
    /\ UNCHANGED <<osc_running, send_thread_alive, clients, message_queue, wire, refused, osc_ret,
                   mainVars, thrVars, unitVars>>
    /\ UNCHANGED <<mbVars, rrVars, encVars, encOut>>

\* steps of time: one expiry window exactly, and just over two; their sums
\* land on and just past both expiry windows
RegistryTicks == {BROADCAST_EXPIRY_MS, 2 * BROADCAST_EXPIRY_MS + 1}

InitRegistry ==
    /\ serial_available = FALSE
    /\ MbInit /\ RrInit /\ EncInit /\ EncOutInit
    /\ UnitIdle
    /\ OscInit /\ MainInit

NextRegistry ==
    \/ \E a \in ClientAddrs : WhoAmI(a)
    \/ \E a \in ClientAddrs : EncoderSubscribe(a)
    \/ \E a \in ClientAddrs, outs \in [ClientAddrs -> SendOutcomes] : EncoderReadSpeed(a, outs)
    \/ \E o \in SendOutcomes : SendWorker(o)
    \/ \E outs \in [ClientAddrs -> SendOutcomes] : Heartbeat(outs)
    \/ \E dt \in RegistryTicks : Tick(dt, MaxNow)

SpecRegistry == InitRegistry /\ [][NextRegistry]_vars

-----------------------------------------------------------------------------
(* MainController: data updates fanned out to the monitor tasks            *)
(* (main_controller.py:1334-1426)                                           *)

\* the addresses monitor tasks are started from
MonitorAddrs == {<<1, 5000>>, <<2, 5000>>}

\* monitor intervals in milliseconds (at least 0.1 s, line 1040)
Intervals == {200, 500}

Formats == {"json", "osc", "text"}

\* data packages of the poll loop, as far as the fingerprint reads them
Samples == [angle : {0, 90}, rpm : {0}, laps : {0}]

MaxMonitorNow == 300

\* the record _handle_start_monitor stores (lines 1095-1104)
new_task(task_id, source, interval, format_type) ==
    [id |-> task_id, type |-> "encoder_monitor", interval |-> interval,
     format |-> format_type, running |-> TRUE, source |-> source,
     last_data |-> None, last_sent_time |-> 0]

\* the fingerprint of a data package (lines 1352-1356)
data_fingerprint(data) == <<data.angle, data.rpm, data.laps>>

\* the duplicate test (lines 1372-1377): same fingerprint and less than half
\* the interval since the last send
is_duplicate(task_info, fp) ==
    /\ task_info.last_data = Some(fp)
    /\ 2 * (now - task_info.last_sent_time) < task_info.interval

\* the loop of _on_encoder_data_update over list(self.continuous_tasks.items())
\* from entry i on, as [tasks, S, sent]: sent collects the ids broadcast was
\* called for.  Building the json result reads the undefined name
\* full_device_name (line 1387); the NameError leaves the loop and the
\* handler, and _trigger_event (encoder_controller.py:698-701) logs it.
RECURSIVE data_update_loop(_, _, _, _, _, _)
data_update_loop(tasks, S, i, sent, fp, outs) ==
    IF i > Len(tasks) THEN [tasks |-> tasks, S |-> S, sent |-> sent]
    ELSE LET task_info == tasks[i]
         IN IF ~task_info.running
            THEN data_update_loop(tasks, S, i + 1, sent, fp, outs)
            ELSE IF is_duplicate(task_info, fp)
            THEN data_update_loop(tasks, S, i + 1, sent, fp, outs)
            ELSE IF task_info.format = "json"
            THEN [tasks |-> tasks, S |-> S, sent |-> sent]
            ELSE data_update_loop(
                     [tasks EXCEPT ![i].last_data = Some(fp), ![i].last_sent_time = now],
                     broadcast(S, outs), i + 1, sent \cup {task_info.id}, fp, outs)

\* the datagrams of the same loop, one set for each call of broadcast
\* (line 1422), in the order of the calls
RECURSIVE data_update_wires(_, _, _, _, _)
data_update_wires(tasks, S, i, fp, outs) ==
    IF i > Len(tasks) THEN <<>>
    ELSE LET task_info == tasks[i]
         IN IF ~task_info.running
            THEN data_update_wires(tasks, S, i + 1, fp, outs)
            ELSE IF is_duplicate(task_info, fp)
            THEN data_update_wires(tasks, S, i + 1, fp, outs)
            ELSE IF task_info.format = "json"
            THEN <<>>
            ELSE <<broadcast([S EXCEPT !.wire = {}], outs).wire>>
                 \o data_update_wires(
                        [tasks EXCEPT ![i].last_data = Some(fp), ![i].last_sent_time = now],
                        broadcast(S, outs), i + 1, fp, outs)

\* how many of these datagrams go to the destination d
RECURSIVE datagrams_to(_, _)
datagrams_to(d, wires) ==
    IF wires = <<>> THEN 0
    ELSE Cardinality({w \in Head(wires) : w.to = d}) + datagrams_to(d, Tail(wires))

\* _on_encoder_data_update (1334-1426) for one data package; outs is what
\* happens to a datagram for each registered client during this pass
OnEncoderDataUpdate(data, outs) ==
    /\ \A a \in ClientAddrs \ registered : outs[a] = "ok"
    /\ LET r == data_update_loop(continuous_tasks, Osc(clients, message_queue, {}), 1, {},
                                 data_fingerprint(data), outs)
       IN /\ continuous_tasks' = r.tasks
          /\ SetOsc(r.S)
          /\ osc_ret' = [op |-> "data_update", fp |-> data_fingerprint(data),
                         sent |-> r.sent, from |-> <<>>]
    /\ UNCHANGED <<now, osc_running, send_thread_alive, unitVars>>
    /\ UNCHANGED <<task_lock, tasks_made, hpc, hcmd, hloc, thrVars>>
    /\ UNCHANGED <<mbVars, rrVars, encVars, encOut>>

\* task maps right after one or two clients have started a monitor at time 0
FreshTaskMaps ==
    { <<new_task(1, a, iv, f)>> : a \in MonitorAddrs, iv \in Intervals, f \in Formats }
    \cup UNION { { <<new_task(1, a, iv, f), new_task(2, b, iw, g)>> :
                      b \in MonitorAddrs \ {a},
                      iv \in Intervals, iw \in Intervals, f \in Formats, g \in Formats } :
                    a \in MonitorAddrs }

\* the registry entries _update_client made for the clients that started them
registry_of(tasks) ==
    [i \in 1..Len(tasks) |-> [key |-> client_key(tasks[i].source),
                              address |-> tasks[i].source, last_seen |-> 0,
                              subscribe |-> {}]]

InitMonitor ==
    /\ serial_available = FALSE
    /\ MbInit /\ RrInit /\ EncInit /\ EncOutInit
    /\ UnitIdle
    /\ now = 0
    /\ osc_running = TRUE
    /\ send_thread_alive \in BOOLEAN
    /\ continuous_tasks \in FreshTaskMaps
    /\ HandlersIdle
    /\ ThrInit
    /\ clients = registry_of(continuous_tasks)
    /\ message_queue = <<>>
    /\ wire = {}
    /\ refused = {}
    /\ osc_ret = OscRet("none")

NextMonitor ==
    \/ \E data \in Samples, outs \in [ClientAddrs -> {"ok", "error"}] :
           OnEncoderDataUpdate(data, outs)
    \/ \E dt \in {100} : Tick(dt, MaxMonitorNow)

SpecMonitor == InitMonitor /\ [][NextMonitor]_vars

-----------------------------------------------------------------------------
(* The poll loop thread: monitoring_task inside start_monitoring            *)
(* (encoder_controller.py:491-617)                                          *)

\* identities of lock owners: handler thread h, poll thread t
Hid(h) == h
Tid(t) == 10 + t

alive(t) == thr_pc[t] \notin {"unborn", "dead"}

\* a mutation of is_alive: no thread ever counts as alive
is_alive_never(mt) == FALSE

\* self.monitoring_thread and self.monitoring_thread.is_alive()
is_alive(mt) == mt # None /\ alive(Val(mt))

can_acquire(lock, id) == lock.owner = None \/ lock.owner = Some(id)
acquire(lock, id) == [owner |-> Some(id), depth |-> lock.depth + 1]
release(lock) ==
    IF lock.depth = 1 THEN [owner |-> None, depth |-> 0]
    ELSE [lock EXCEPT !.depth = @ - 1]

\* self.max_consecutive_errors (line 136), the loop's error_threshold
max_consecutive_errors == 5

\* failed reads of the poll loop counted by the client
MaxPollErrors == 1

\* what the device answers during one cycle of the loop: the position read
\* succeeds at once or fails three times; the three speed reads of a cycle
\* (lines 550, 555 and get_direction at 566) succeed at once, all alike
PollPositions == {100}
PollSpeeds == {12}
ok_outs(v) == [i \in 1..3 |-> [kind |-> "value", value |-> v]]
fail_outs == [i \in 1..3 |-> [kind |-> "none", value |-> 0]]
PollPositionOuts == {ok_outs(v) : v \in PollPositions} \cup {fail_outs}
PollSpeedOuts == {ok_outs(v) : v \in PollSpeeds}

\* a thread that cannot move by itself: not running, waiting for a lock another
\* thread holds, inside serial I/O, or in an interval wait nobody has signalled.
\* A timed wait of another thread (join, sleep) runs out only against such a
\* thread; a thread that can move is taken to move first.
blocked_on_enc_lock(t) ==
    thr_pc[t] \in {"acquire", "trigger", "finally"}
    /\ ~can_acquire(enc_lock, Tid(t))
quiescent(t) ==
    \/ ~alive(t)
    \/ blocked_on_enc_lock(t)
    \/ thr_pc[t] = "callback" /\ task_lock # None
    \/ thr_pc[t] = "poll"
    \/ thr_pc[t] \in {"nilwait", "sleep"} /\ ~stop_monitoring_event

ThrUnchanged ==
    UNCHANGED <<monitoring_thread, connection_monitor>>

\* while not self.stop_monitoring_event.is_set() (line 499): where the
\* thread goes next
while_condition == IF stop_monitoring_event THEN "finally" ELSE "acquire"

\* the thread starts running monitoring_task and tests the loop condition
PollLoopTop(t) ==
    /\ thr_pc[t] = "loop"
    /\ thr_pc' = [thr_pc EXCEPT ![t] = while_condition]
    /\ UNCHANGED <<enc_lock, stop_monitoring_event, thr_loc>>
    /\ ThrUnchanged
    /\ UNCHANGED <<mbVars, rrVars, encVars, encOut, oscVars, mainVars, unitVars>>

\* with self.lock (line 502)
PollAcquire(t) ==
    /\ thr_pc[t] = "acquire"
    /\ can_acquire(enc_lock, Tid(t))
    /\ enc_lock' = acquire(enc_lock, Tid(t))
    /\ thr_pc' = [thr_pc EXCEPT ![t] = "poll"]
    /\ UNCHANGED <<stop_monitoring_event, thr_loc>>
    /\ ThrUnchanged
    /\ UNCHANGED <<mbVars, rrVars, encVars, encOut, oscVars, mainVars, unitVars>>

\* the body under the lock (lines 503-572): pouts and souts are what the
\* device does to the position read and to the speed reads, stale is whether
\* 10 s have passed since the last good read (line 528)
PollCycle(t, pouts, souts, stale) ==
    /\ thr_pc[t] = "poll"
    /\ IF ~connected
       THEN /\ thr_pc' = [thr_pc EXCEPT ![t] = "finally"]
            /\ enc_lock' = release(enc_lock)
            /\ UNCHANGED <<mbVars, encVars, events, thr_loc>>
       ELSE LET p == read_register(ENCODER_SINGLE_VALUE, serial_available,
                                   dev_connected, TRUE, pouts)
            IN IF p.value = None
               THEN LET errs == thr_loc[t].errs + 1
                    IN /\ error_count + p.err <= MaxPollErrors
                       /\ error_count' = error_count + p.err
                       /\ dev_connected' = p.connected
                       /\ thr_loc' = [thr_loc EXCEPT ![t].errs = errs]
                       /\ UNCHANGED events
                       /\ IF errs > max_consecutive_errors \/ stale
                          THEN /\ thr_pc' = [thr_pc EXCEPT ![t] = "finally"]
                               /\ enc_lock' = release(enc_lock)
                          ELSE /\ thr_pc' = [thr_pc EXCEPT ![t] = "nilwait"]
                               /\ UNCHANGED enc_lock
                       /\ UNCHANGED <<serial_available, encoder_resolution,
                                      encoder_sampling_time_ms, encVars>>
               ELSE LET u == update_lap_count(Val(p.value), last_position,
                                              current_lap_count, position_threshold)
                        r1 == read_register(ENCODER_ANGULAR_SPEED, serial_available,
                                            p.connected, TRUE, souts)
                        raw_speed_value == IF r1.value = None THEN None
                                           ELSE Some(to_signed16(Val(r1.value)))
                        speed == IF r1.value = None THEN None
                                 ELSE actual_speed(Val(r1.value), encoder_resolution,
                                                   encoder_sampling_time_ms)
                        rs == read_speed(r1, encoder_resolution, encoder_sampling_time_ms,
                                         consecutive_errors)
                        direction == get_direction(TRUE, rs)
                        errs3 == 3 * r1.err
                    IN /\ Abs(u.laps) <= MaxLaps
                       /\ error_count + errs3 <= MaxErrors
                       /\ rs.errs <= MaxErrors
                       /\ error_count' = error_count + errs3
                       /\ dev_connected' = r1.connected
                       /\ last_position' = u.last
                       /\ current_lap_count' = u.laps
                       /\ position_threshold' = u.thr
                       /\ consecutive_errors' = rs.errs
                       /\ events' = u.ev
                       /\ thr_loc' = [thr_loc EXCEPT ![t].errs = 0,
                                        ![t].data = Some([angle |-> <<Val(p.value) * 360,
                                                                     encoder_resolution>>,
                                                          rpm |-> speed, laps |-> u.laps,
                                                          direction |-> direction,
                                                          raw_angle |-> Val(p.value),
                                                          raw_rpm |-> raw_speed_value])]
                       /\ thr_pc' = [thr_pc EXCEPT ![t] = "emit"]
                       /\ enc_lock' = release(enc_lock)
                       /\ UNCHANGED <<serial_available, encoder_resolution,
                                      encoder_sampling_time_ms, connected, modbus_client>>
    /\ UNCHANGED <<stop_monitoring_event, enc_ret>>
    /\ ThrUnchanged
    /\ UNCHANGED <<rrVars, oscVars, mainVars, unitVars>>

\* self.stop_monitoring_event.wait(interval) after a failed read (line 541),
\* still under the lock; continue then leaves the with block
PollNilWait(t) ==
    /\ thr_pc[t] = "nilwait"
    /\ thr_pc' = [thr_pc EXCEPT ![t] = while_condition]
    /\ enc_lock' = release(enc_lock)
    /\ UNCHANGED <<stop_monitoring_event, thr_loc>>
    /\ ThrUnchanged
    /\ UNCHANGED <<mbVars, rrVars, encVars, encOut, oscVars, mainVars, unitVars>>

\* the data package (lines 577-587), built without the lock: with
\* self.modbus_client gone it raises AttributeError, lines 595-598 count the
\* error and no package is left
PollEmit(t) ==
    /\ thr_pc[t] = "emit"
    /\ IF modbus_client = None
       THEN thr_loc' = [thr_loc EXCEPT ![t].errs = @ + 1, ![t].data = None]
       ELSE UNCHANGED thr_loc
    /\ thr_pc' = [thr_pc EXCEPT ![t] = "trigger"]
    /\ UNCHANGED <<enc_lock, stop_monitoring_event>>
    /\ ThrUnchanged
    /\ UNCHANGED <<mbVars, rrVars, encVars, encOut, oscVars, mainVars, unitVars>>

\* _trigger_event copies the listeners under self.lock (lines 694-696): for
\* on_data_update (line 590) the listener is called next; for on_monitor_error
\* of the except path (lines 599-611) there is none, and the loop breaks or
\* waits
PollTrigger(t) ==
    /\ thr_pc[t] = "trigger"
    /\ can_acquire(enc_lock, Tid(t))
    /\ thr_pc' = [thr_pc EXCEPT ![t] =
                    IF thr_loc[t].data # None THEN "callback"
                    ELSE IF thr_loc[t].errs > max_consecutive_errors THEN "finally"
                    ELSE "sleep"]
    /\ UNCHANGED <<enc_lock, stop_monitoring_event, thr_loc>>
    /\ ThrUnchanged
    /\ UNCHANGED <<mbVars, rrVars, encVars, encOut, oscVars, mainVars, unitVars>>

\* the listener call of _trigger_event (lines 698-701):
\* MainController._on_encoder_data_update, which needs the task lock
PollCallback(t, outs) ==
    /\ thr_pc[t] = "callback"
    /\ task_lock = None
    /\ \A a \in ClientAddrs \ registered : outs[a] = "ok"
    /\ LET data == Val(thr_loc[t].data)
           r == data_update_loop(continuous_tasks, Osc(clients, message_queue, {}), 1, {},
                                 data_fingerprint(data), outs)
       IN /\ continuous_tasks' = r.tasks
          /\ SetOsc(r.S)
    /\ thr_pc' = [thr_pc EXCEPT ![t] = "sleep"]
    /\ thr_loc' = [thr_loc EXCEPT ![t].data = None]
    /\ UNCHANGED <<now, osc_running, send_thread_alive, osc_ret, unitVars>>
    /\ UNCHANGED <<task_lock, tasks_made, hpc, hcmd, hloc>>
    /\ UNCHANGED <<enc_lock, stop_monitoring_event>>
    /\ ThrUnchanged
    /\ UNCHANGED <<mbVars, rrVars, encVars, encOut>>

\* self.stop_monitoring_event.wait(interval) between cycles (lines 593, 614):
\* it returns when the event is set or the interval is over, and the loop
\* condition is tested
PollSleep(t) ==
    /\ thr_pc[t] = "sleep"
    /\ thr_pc' = [thr_pc EXCEPT ![t] = while_condition]
    /\ UNCHANGED <<enc_lock, stop_monitoring_event, thr_loc>>
    /\ ThrUnchanged
    /\ UNCHANGED <<mbVars, rrVars, encVars, encOut, oscVars, mainVars, unitVars>>

\* finally: _trigger_event("on_monitoring_stopped") (lines 615-617), which
\* takes self.lock to copy the listeners; nobody listens
PollFinally(t) ==
    /\ thr_pc[t] = "finally"
    /\ can_acquire(enc_lock, Tid(t))
    /\ thr_pc' = [thr_pc EXCEPT ![t] = "exiting"]
    /\ UNCHANGED <<enc_lock, stop_monitoring_event, thr_loc>>
    /\ ThrUnchanged
    /\ UNCHANGED <<mbVars, rrVars, encVars, encOut, oscVars, mainVars, unitVars>>

\* monitoring_task returns and the thread ends
PollExit(t) ==
    /\ thr_pc[t] = "exiting"
    /\ thr_pc' = [thr_pc EXCEPT ![t] = "dead"]
    /\ thr_loc' = [thr_loc EXCEPT ![t] = NoThrLoc]
    /\ UNCHANGED <<enc_lock, stop_monitoring_event>>
    /\ ThrUnchanged
    /\ UNCHANGED <<mbVars, rrVars, encVars, encOut, oscVars, mainVars, unitVars>>

-----------------------------------------------------------------------------
(* Command handlers of MainController, each run by a server thread, and the *)
(* EncoderController methods they call.  Events nobody listens to           *)
(* (main_controller.py:96-99 registers on_data_update, on_zero_set,         *)
(* on_connection_lost and on_connection_restored only) do nothing here.     *)

MaxTasks == 2

AllOk == [a \in ClientAddrs |-> "ok"]

\* the handler's return statement.  The server thread is then free for its
\* next command; what stays visible of a finished command is the status and,
\* for a start_monitor that succeeded, its source and the task it replaced
Finish(h, status) ==
    /\ hpc' = [hpc EXCEPT ![h] = "return"]
    /\ IF hcmd[h].op = "start_monitor" /\ status = "success"
       THEN /\ hloc' = [hloc EXCEPT ![h] = [NoLoc EXCEPT !.status = status,
                                                        !.existing = hloc[h].existing]]
            /\ hcmd' = [hcmd EXCEPT ![h] = [NoCmd EXCEPT !.op = "start_monitor",
                                                        !.source = hcmd[h].source]]
       ELSE /\ hloc' = [hloc EXCEPT ![h] = [NoLoc EXCEPT !.status = status]]
            /\ hcmd' = [hcmd EXCEPT ![h] = NoCmd]

\* enter stop_monitoring and come back at ret
call_stop_monitoring(h, ret) ==
    /\ hpc' = [hpc EXCEPT ![h] = "sm_enter"]
    /\ hloc' = [hloc EXCEPT ![h].ret = ret]

\* a mutation of find_existing: the source's task is never found
find_existing_none(tasks, source) == None

\* the loop of _handle_start_monitor that looks for the source's task
\* (lines 1051-1055)
find_existing(tasks, source) ==
    LET hits == {i \in 1..Len(tasks) : /\ tasks[i].source = source
                                       /\ tasks[i].type = "encoder_monitor"
                                       /\ tasks[i].running}
    IN IF hits = {} THEN None
       ELSE Some(tasks[CHOOSE i \in hits : \A j \in hits : i <= j].id)

\* self.continuous_tasks.pop(task_id, None)
pop_task(tasks, task_id) == SelectSeq(tasks, LAMBDA t : t.id # task_id)

has_task(tasks, task_id) == \E i \in 1..Len(tasks) : tasks[i].id = task_id

\* encoder_tasks of _stop_continuous_task (lines 1314-1315)
encoder_tasks(tasks) ==
    SelectSeq(tasks, LAMBDA t : t.type = "encoder_monitor" /\ t.running)

EncUnchanged == UNCHANGED <<mbVars, rrVars, encVars, encOut>>

\* stop_monitoring up to the join (lines 643-653)
StopMonitoringEnter(h) ==
    /\ hpc[h] = "sm_enter"
    /\ can_acquire(enc_lock, Hid(h))
    /\ IF ~is_alive(monitoring_thread)
       THEN /\ hpc' = [hpc EXCEPT ![h] = hloc[h].ret]
            /\ hloc' = [hloc EXCEPT ![h].ret = ""]
            /\ UNCHANGED <<enc_lock, stop_monitoring_event>>
       ELSE /\ enc_lock' = acquire(enc_lock, Hid(h))
            /\ stop_monitoring_event' = TRUE
            /\ hpc' = [hpc EXCEPT ![h] = "sm_join"]
            /\ hloc' = [hloc EXCEPT ![h].sm_at = thr_pc[Val(monitoring_thread)]]
    /\ UNCHANGED <<monitoring_thread, connection_monitor, thr_pc, thr_loc>>
    /\ UNCHANGED <<continuous_tasks, task_lock, tasks_made, hcmd>>
    /\ UNCHANGED <<oscVars, unitVars>>
    /\ EncUnchanged

\* what stop_monitoring returns after the join (lines 658-669); every caller
\* drops the value
stop_monitoring_result(t) == IF alive(t) THEN "failure" ELSE "success"

\* self.monitoring_thread.join(timeout=3.0) and what follows (lines 656-669):
\* the join returns when the thread has ended, or after 3 s
StopMonitoringJoin(h) ==
    /\ hpc[h] = "sm_join"
    /\ LET t == Val(monitoring_thread)
       IN /\ quiescent(t)
          /\ monitoring_thread' = IF stop_monitoring_result(t) = "success" THEN None
                                  ELSE monitoring_thread
    /\ hloc' = [hloc EXCEPT ![h].sm_at = "", ![h].ret = ""]
    /\ enc_lock' = release(enc_lock)
    /\ hpc' = [hpc EXCEPT ![h] = hloc[h].ret]
    /\ UNCHANGED <<stop_monitoring_event, connection_monitor, thr_pc, thr_loc>>
    /\ UNCHANGED <<continuous_tasks, task_lock, tasks_made, hcmd>>
    /\ UNCHANGED <<oscVars, unitVars>>
    /\ EncUnchanged

\* a command arrives at a server thread: its OSC handler notes the client
\* (_update_client) and calls the command handler
Commands ==
    [op : {"start_monitor"}, source : MonitorAddrs, interval : {50, 500},
     format : {"osc"}, task_id : {None}]
    \cup [op : {"stop_monitor"}, source : {<<1, 5000>>}, interval : {0}, format : {""},
          task_id : {None, Some(1)}]
    \cup [op : {"disconnect", "connect"}, source : {<<1, 5000>>}, interval : {0},
          format : {""}, task_id : {None}]

\* the first server thread takes any command, the others the monitor commands
\* with an interval that is accepted
CommandsOf(h) ==
    IF h = 1 THEN Commands
    ELSE {cmd \in Commands : /\ cmd.op \in {"start_monitor", "stop_monitor"}
                              /\ cmd.interval \in {0} \cup Intervals}

first_step(cmd) ==
    CASE cmd.op = "start_monitor" -> "st_lock"
      [] cmd.op = "stop_monitor" -> IF cmd.task_id = None THEN "sp_all" ELSE "sp_snapshot"
      [] cmd.op = "disconnect" -> "dc_lock"
      [] OTHER -> "cn"

\* the shortest monitor interval, in milliseconds (main_controller.py:1041)
min_interval == 100

\* the parameter test of _handle_start_monitor (lines 1040-1046), which
\* returns the error before the task lock is taken
interval_never_rejected(cmd) == FALSE
interval_rejected(cmd) ==
    cmd.op = "start_monitor" /\ cmd.interval < min_interval

Receive(h, cmd) ==
    /\ hpc[h] \in {"idle", "return"}
    /\ cmd \in CommandsOf(h)
    /\ hpc' = [hpc EXCEPT ![h] = IF interval_rejected(cmd) THEN "return" ELSE first_step(cmd)]
    /\ hcmd' = [hcmd EXCEPT ![h] = cmd]
    /\ hloc' = [hloc EXCEPT ![h] = IF interval_rejected(cmd)
                                   THEN [NoLoc EXCEPT !.status = "error"]
                                   ELSE NoLoc]
    /\ clients' = update_client(clients, cmd.source)
    /\ UNCHANGED <<now, osc_running, send_thread_alive, message_queue, wire, refused, osc_ret, unitVars>>
    /\ UNCHANGED <<continuous_tasks, task_lock, tasks_made, thrVars>>
    /\ EncUnchanged

\* _handle_start_monitor from taking the task lock to the new task id
\* (lines 1049-1075): the source's task, if any, goes through
\* _stop_continuous_task (lines 1304-1318)
StartMonitorLock(h) ==
    /\ hpc[h] = "st_lock"
    /\ task_lock = None
    /\ tasks_made < MaxTasks
    /\ task_lock' = Some(Hid(h))
    /\ tasks_made' = tasks_made + 1
    /\ hcmd' = [hcmd EXCEPT ![h].task_id = Some(tasks_made + 1)]
    /\ LET existing_task_id == find_existing(continuous_tasks, hcmd[h].source)
       IN IF existing_task_id = None
          THEN /\ hpc' = [hpc EXCEPT ![h] = "st_check"]
               /\ UNCHANGED <<continuous_tasks, hloc>>
          ELSE LET rest == pop_task(continuous_tasks, Val(existing_task_id))
               IN /\ continuous_tasks' = rest
                  /\ hpc' = [hpc EXCEPT ![h] =
                                IF encoder_tasks(rest) = <<>> THEN "sm_enter" ELSE "st_check"]
                  /\ hloc' = [hloc EXCEPT ![h].existing = existing_task_id,
                                          ![h].old_thread = monitoring_thread,
                                          ![h].ret = "st_check"]
    /\ UNCHANGED thrVars
    /\ UNCHANGED <<oscVars, unitVars>>
    /\ EncUnchanged

\* if monitoring_thread and is_alive(): stop_monitoring(); time.sleep(0.2)
\* (lines 1078-1081)
StartMonitorCheck(h) ==
    /\ hpc[h] = "st_check"
    /\ IF is_alive(monitoring_thread)
       THEN call_stop_monitoring(h, "st_sleep")
       ELSE /\ hpc' = [hpc EXCEPT ![h] = "st_start"]
            /\ UNCHANGED hloc
    /\ UNCHANGED <<continuous_tasks, task_lock, tasks_made, hcmd, thrVars>>
    /\ UNCHANGED <<oscVars, unitVars>>
    /\ EncUnchanged

\* time.sleep(0.2) (line 1081)
StartMonitorSleep(h) ==
    /\ hpc[h] = "st_sleep"
    /\ \A t \in ThreadIds : quiescent(t)
    /\ hpc' = [hpc EXCEPT ![h] = "st_start"]
    /\ UNCHANGED <<continuous_tasks, task_lock, tasks_made, hcmd, hloc, thrVars>>
    /\ UNCHANGED <<oscVars, unitVars>>
    /\ EncUnchanged

\* start_monitoring before the lock (lines 478-479); a failure makes
\* _handle_start_monitor return an error (lines 1088-1093)
StartMonitoring(h) ==
    /\ hpc[h] = "st_start"
    /\ IF ~connected
       THEN /\ hpc' = [hpc EXCEPT ![h] = "return"]
            /\ hloc' = [hloc EXCEPT ![h] = [NoLoc EXCEPT !.status = "error",
                                                        !.message = "not connected"]]
            /\ hcmd' = [hcmd EXCEPT ![h] = NoCmd]
            /\ task_lock' = None
       ELSE /\ hpc' = [hpc EXCEPT ![h] = "st_start_locked"]
            /\ UNCHANGED <<task_lock, hloc, hcmd>>
    /\ UNCHANGED <<continuous_tasks, tasks_made, thrVars>>
    /\ UNCHANGED <<oscVars, unitVars>>
    /\ EncUnchanged

\* start_monitoring under self.lock (lines 481-634): t is the thread object
\* it creates when no loop is alive; st is the status of the result, "running"
\* (line 485) or "started" (line 631)
StartMonitoringLocked(h, t) ==
    /\ hpc[h] = "st_start_locked"
    /\ can_acquire(enc_lock, Hid(h))
    /\ IF is_alive(monitoring_thread)
       THEN /\ t = Val(monitoring_thread)
            /\ hloc' = [hloc EXCEPT ![h].st = "running"]
            /\ UNCHANGED <<stop_monitoring_event, monitoring_thread, thr_pc, thr_loc>>
       ELSE /\ thr_pc[t] = "unborn"
            /\ \A u \in ThreadIds : u < t => thr_pc[u] # "unborn"
            /\ stop_monitoring_event' = FALSE
            /\ monitoring_thread' = Some(t)
            /\ thr_pc' = [thr_pc EXCEPT ![t] = "loop"]
            /\ thr_loc' = [thr_loc EXCEPT ![t] = [interval |-> hcmd[h].interval,
                                                  errs |-> 0, data |-> None]]
            /\ hloc' = [hloc EXCEPT ![h].st = "started"]
    /\ hpc' = [hpc EXCEPT ![h] = "st_record"]
    /\ UNCHANGED <<enc_lock, connection_monitor>>
    /\ UNCHANGED <<continuous_tasks, task_lock, tasks_made, hcmd>>
    /\ UNCHANGED <<oscVars, unitVars>>
    /\ EncUnchanged

\* the task is recorded, the start is announced and the handler returns
\* success (lines 1095-1116)
StartMonitorRecord(h) ==
    /\ hpc[h] = "st_record"
    /\ continuous_tasks' = Append(continuous_tasks,
                                  new_task(Val(hcmd[h].task_id), hcmd[h].source,
                                           hcmd[h].interval, hcmd[h].format))
    /\ SetOsc(broadcast(Osc(clients, message_queue, {}), AllOk))
    /\ task_lock' = None
    /\ Finish(h, "success")
    /\ UNCHANGED <<now, osc_running, send_thread_alive, osc_ret, unitVars>>
    /\ UNCHANGED <<tasks_made, thrVars>>
    /\ EncUnchanged

\* _handle_stop_monitor without a task id (lines 1145-1155): every task goes
\* through _stop_continuous_task, and the one that empties the map calls
\* stop_monitoring.  The listing of the ids before it (lines 1140-1141) only
\* words the error message of the other branch.
StopMonitorAll(h) ==
    /\ hpc[h] = "sp_all"
    /\ task_lock = None
    /\ IF Len(continuous_tasks) = 0
       THEN /\ Finish(h, "success")
            /\ UNCHANGED <<continuous_tasks, task_lock>>
       ELSE /\ task_lock' = Some(Hid(h))
            /\ continuous_tasks' = <<>>
            /\ call_stop_monitoring(h, "sp_all_again")
            /\ UNCHANGED hcmd
    /\ UNCHANGED <<tasks_made, thrVars>>
    /\ UNCHANGED <<oscVars, unitVars>>
    /\ EncUnchanged

\* self.encoder_controller.stop_monitoring() once more (lines 1158-1159)
StopMonitorAllAgain(h) ==
    /\ hpc[h] = "sp_all_again"
    /\ call_stop_monitoring(h, "sp_event")
    /\ UNCHANGED <<continuous_tasks, task_lock, tasks_made, hcmd, thrVars>>
    /\ UNCHANGED <<oscVars, unitVars>>
    /\ EncUnchanged

\* list(self.continuous_tasks.keys())
task_ids(tasks) == [i \in 1..Len(tasks) |-> tasks[i].id]

\* _handle_stop_monitor with a task id: active_tasks is read under the task
\* lock, which is released again (lines 1139-1141).  Without a task id the
\* list is never read, and the handler goes on to line 1146.
StopMonitorSnapshot(h) ==
    /\ hpc[h] = "sp_snapshot"
    /\ task_lock = None
    /\ hloc' = [hloc EXCEPT ![h].active_tasks = task_ids(continuous_tasks)]
    /\ hpc' = [hpc EXCEPT ![h] = "sp_one"]
    /\ UNCHANGED <<continuous_tasks, task_lock, tasks_made, hcmd, thrVars>>
    /\ UNCHANGED <<oscVars, unitVars>>
    /\ EncUnchanged

\* a task id: _stop_continuous_task if the map has it, else the error with
\* available_tasks (lines 1168-1195)
StopMonitorOne(h) ==
    /\ hpc[h] = "sp_one"
    /\ task_lock = None
    /\ IF has_task(continuous_tasks, Val(hcmd[h].task_id))
       THEN LET rest == pop_task(continuous_tasks, Val(hcmd[h].task_id))
            IN /\ task_lock' = Some(Hid(h))
               /\ continuous_tasks' = rest
               /\ IF encoder_tasks(rest) = <<>>
                  THEN call_stop_monitoring(h, "sp_event")
                  ELSE /\ hpc' = [hpc EXCEPT ![h] = "sp_event"]
                       /\ UNCHANGED hloc
               /\ UNCHANGED hcmd
       ELSE /\ hpc' = [hpc EXCEPT ![h] = "return"]
            /\ hloc' = [hloc EXCEPT ![h] = [NoLoc EXCEPT !.status = "error",
                                                         !.active_tasks = hloc[h].active_tasks]]
            /\ hcmd' = [hcmd EXCEPT ![h] = NoCmd]
            /\ UNCHANGED <<continuous_tasks, task_lock>>
    /\ UNCHANGED <<tasks_made, thrVars>>
    /\ UNCHANGED <<oscVars, unitVars>>
    /\ EncUnchanged

\* _trigger_monitor_stop_event and the return (lines 1162-1165, 1173-1176)
StopMonitorEvent(h) ==
    /\ hpc[h] = "sp_event"
    /\ SetOsc(broadcast(Osc(clients, message_queue, {}), AllOk))
    /\ task_lock' = None
    /\ Finish(h, "success")
    /\ UNCHANGED <<now, osc_running, send_thread_alive, osc_ret, unitVars>>
    /\ UNCHANGED <<continuous_tasks, tasks_made, thrVars>>
    /\ EncUnchanged

\* _handle_disconnect stops every encoder task under the task lock
\* (lines 604-610)
DisconnectTasks(h) ==
    /\ hpc[h] = "dc_lock"
    /\ task_lock = None
    /\ IF Len(continuous_tasks) = 0
       THEN /\ hpc' = [hpc EXCEPT ![h] = "dc_disconnect"]
            /\ UNCHANGED <<continuous_tasks, task_lock, hloc>>
       ELSE /\ task_lock' = Some(Hid(h))
            /\ continuous_tasks' = <<>>
            /\ call_stop_monitoring(h, "dc_unlock")
    /\ UNCHANGED <<tasks_made, hcmd, thrVars>>
    /\ UNCHANGED <<oscVars, unitVars>>
    /\ EncUnchanged

\* the end of the with block (line 610)
DisconnectUnlock(h) ==
    /\ hpc[h] = "dc_unlock"
    /\ task_lock' = None
    /\ hpc' = [hpc EXCEPT ![h] = "dc_disconnect"]
    /\ UNCHANGED <<continuous_tasks, tasks_made, hcmd, hloc, thrVars>>
    /\ UNCHANGED <<oscVars, unitVars>>
    /\ EncUnchanged

\* EncoderController.disconnect up to its stop_monitoring call (lines 953-961)
DisconnectEnter(h) ==
    /\ hpc[h] = "dc_disconnect"
    /\ can_acquire(enc_lock, Hid(h))
    /\ enc_lock' = acquire(enc_lock, Hid(h))
    /\ connection_monitor' = None
    /\ IF is_alive(monitoring_thread)
       THEN call_stop_monitoring(h, "dc_close")
       ELSE /\ hpc' = [hpc EXCEPT ![h] = "dc_close"]
            /\ UNCHANGED hloc
    /\ UNCHANGED <<stop_monitoring_event, monitoring_thread, thr_pc, thr_loc>>
    /\ UNCHANGED <<continuous_tasks, task_lock, tasks_made, hcmd>>
    /\ UNCHANGED <<oscVars, unitVars>>
    /\ EncUnchanged

\* the rest of disconnect (lines 962-996): the wait of up to 3 s for the
\* thread, which ends at once with AttributeError when stop_monitoring has
\* cleared the handle, then the client is closed and dropped
DisconnectClose(h) ==
    /\ hpc[h] = "dc_close"
    /\ IF is_alive(monitoring_thread) THEN quiescent(Val(monitoring_thread)) ELSE TRUE
    /\ enc_lock' = release(enc_lock)
    /\ modbus_client' = None
    /\ dev_connected' = FALSE
    /\ connected' = FALSE
    /\ Finish(h, "success")
    /\ UNCHANGED <<serial_available, error_count, encoder_resolution,
                   encoder_sampling_time_ms, last_position, current_lap_count,
                   position_threshold, consecutive_errors, encOut>>
    /\ UNCHANGED <<stop_monitoring_event, monitoring_thread, connection_monitor, thr_pc,
                   thr_loc>>
    /\ UNCHANGED <<continuous_tasks, task_lock, tasks_made>>
    /\ UNCHANGED <<rrVars, oscVars, unitVars>>

\* _handle_connect: EncoderController.connect under self.lock (lines 150-188);
\* ok is whether the new client's connect() succeeds.  Which client object
\* it is plays no part here, so every one is <<1>>
HandleConnect(h, ok) ==
    /\ hpc[h] = "cn"
    /\ can_acquire(enc_lock, Hid(h))
    /\ modbus_client' = Some(1)
    /\ serial_available' = TRUE
    /\ dev_connected' = ok
    /\ error_count' = 0
    /\ encoder_resolution' = 4096
    /\ encoder_sampling_time_ms' = 100
    /\ connected' = ok
    /\ IF ok
       THEN /\ current_lap_count' = 0
            /\ last_position' = None
            /\ consecutive_errors' = 0
            /\ position_threshold' = Some(half_resolution(4096))
            /\ connection_monitor' = Some(1)
       ELSE /\ UNCHANGED <<current_lap_count, last_position, consecutive_errors,
                           position_threshold, connection_monitor>>
    /\ Finish(h, IF ok THEN "success" ELSE "error")
    /\ UNCHANGED <<enc_lock, stop_monitoring_event, monitoring_thread, thr_pc, thr_loc>>
    /\ UNCHANGED <<continuous_tasks, task_lock, tasks_made>>
    /\ UNCHANGED <<rrVars, encOut, oscVars, unitVars>>

\* the server after both clients have sent it a packet
known_clients ==
    [i \in 1..2 |-> [key |-> client_key(<<i, 5000>>), address |-> <<i, 5000>>,
                     last_seen |-> 0, subscribe |-> {}]]

Init ==
    /\ serial_available = TRUE
    /\ MbInit /\ RrInit /\ EncInit /\ EncOutInit
    /\ UnitIdle
    /\ now = 0
    /\ osc_running = TRUE
    /\ send_thread_alive = TRUE
    /\ clients = known_clients
    /\ message_queue = <<>>
    /\ wire = {}
    /\ refused = {}
    /\ osc_ret = OscRet("none")
    /\ MainInit

Next ==
    \/ \E t \in ThreadIds : PollLoopTop(t)
    \/ \E t \in ThreadIds : PollAcquire(t)
    \/ \E t \in ThreadIds, pouts \in PollPositionOuts, souts \in PollSpeedOuts,
          stale \in BOOLEAN : PollCycle(t, pouts, souts, stale)
    \/ \E t \in ThreadIds : PollNilWait(t)
    \/ \E t \in ThreadIds : PollEmit(t)
    \/ \E t \in ThreadIds : PollTrigger(t)
    \/ \E t \in ThreadIds : PollCallback(t, AllOk)
    \/ \E t \in ThreadIds : PollSleep(t)
    \/ \E t \in ThreadIds : PollFinally(t)
    \/ \E t \in ThreadIds : PollExit(t)
    \/ \E h \in Handlers, cmd \in Commands : Receive(h, cmd)
    \/ \E h \in Handlers : StopMonitoringEnter(h)
    \/ \E h \in Handlers : StopMonitoringJoin(h)
    \/ \E h \in Handlers : StartMonitorLock(h)
    \/ \E h \in Handlers : StartMonitorCheck(h)
    \/ \E h \in Handlers : StartMonitorSleep(h)
    \/ \E h \in Handlers : StartMonitoring(h)
    \/ \E h \in Handlers, t \in ThreadIds : StartMonitoringLocked(h, t)
    \/ \E h \in Handlers : StartMonitorRecord(h)
    \/ \E h \in Handlers : StopMonitorAll(h)
    \/ \E h \in Handlers : StopMonitorAllAgain(h)
    \/ \E h \in Handlers : StopMonitorSnapshot(h)
    \/ \E h \in Handlers : StopMonitorOne(h)
    \/ \E h \in Handlers : StopMonitorEvent(h)
    \/ \E h \in Handlers : DisconnectTasks(h)
    \/ \E h \in Handlers : DisconnectUnlock(h)
    \/ \E h \in Handlers : DisconnectEnter(h)
    \/ \E h \in Handlers : DisconnectClose(h)
    \/ \E h \in Handlers, ok \in BOOLEAN : HandleConnect(h, ok)

Spec == Init /\ [][Next]_vars

-----------------------------------------------------------------------------
(* The serial transactions of the three threads that use one controller's  *)
(* handle: the poll loop and the command handlers go through the           *)
(* controller, whose methods take self.lock; the connection monitor calls  *)
(* the ModbusClient directly (monitoring.py:84-163), and ModbusClient has   *)
(* no lock of its own.                                                     *)

notTxVars == <<coreVars, crcVars, pollVars, cmVars, wrVars, sessVars, evVars, sdVars,
               lateVars>>

\* `with self.lock` of the poll loop's cycle (encoder_controller.py:502) and
\* of a command handler's read or write (lines 229, 289, 331, 357)
TxAcquire(t) ==
    /\ t \in {"poll"} \cup TxHandlers
    /\ tx_pc[t] = "idle"
    /\ can_acquire(tx_lock, t)
    /\ tx_lock' = acquire(tx_lock, t)
    /\ tx_pc' = [tx_pc EXCEPT ![t] = "locked"]
    /\ UNCHANGED <<tx_in, tx_open, tx_running, tx_overlap, tx_cut>>
    /\ UNCHANGED notTxVars

\* a request is sent: by the poll loop or a handler inside its locked
\* section while the controller is connected, by the connection monitor
\* (health check of _perform_health_check, device.connect() of
\* _handle_disconnected_device) whenever its loop runs
TxBegin(t) ==
    /\ IF t = "supervisor"
       THEN tx_pc[t] = "idle" /\ tx_running
       ELSE tx_pc[t] = "locked" /\ tx_open
    /\ tx_in' = tx_in \cup {t}
    /\ tx_overlap' = (tx_overlap \/ tx_in # {})
    /\ tx_pc' = [tx_pc EXCEPT ![t] = "transaction"]
    /\ UNCHANGED <<tx_lock, tx_open, tx_running, tx_cut>>
    /\ UNCHANGED notTxVars

\* the response has come, or the request has timed out
TxEnd(t) ==
    /\ tx_pc[t] = "transaction"
    /\ tx_in' = tx_in \ {t}
    /\ tx_pc' = [tx_pc EXCEPT ![t] = IF t = "supervisor" THEN "idle" ELSE "unlocking"]
    /\ UNCHANGED <<tx_lock, tx_open, tx_running, tx_overlap, tx_cut>>
    /\ UNCHANGED notTxVars

\* the end of the locked section; a section that found the controller
\* disconnected has sent nothing
TxRelease(t) ==
    /\ IF tx_pc[t] = "locked" THEN ~tx_open ELSE tx_pc[t] = "unlocking"
    /\ tx_lock' = release(tx_lock)
    /\ tx_pc' = [tx_pc EXCEPT ![t] = "idle"]
    /\ UNCHANGED <<tx_in, tx_open, tx_running, tx_overlap, tx_cut>>
    /\ UNCHANGED notTxVars

\* disconnect (encoder_controller.py:945-957): under the lock the connection
\* monitor is stopped; ConnectionMonitor.stop clears running and joins the
\* thread for at most 1 s (monitoring.py:53-61)
TxDisconnect(t) ==
    /\ tx_pc[t] = "idle"
    /\ tx_open
    /\ can_acquire(tx_lock, t)
    /\ tx_lock' = acquire(tx_lock, t)
    /\ tx_running' = FALSE
    /\ tx_pc' = [tx_pc EXCEPT ![t] = "closing"]
    /\ UNCHANGED <<tx_in, tx_open, tx_overlap, tx_cut>>
    /\ UNCHANGED notTxVars

\* disconnect (lines 980-996): the client is closed
TxClose(t) ==
    /\ tx_pc[t] = "closing"
    /\ tx_open' = FALSE
    /\ tx_cut' = (tx_cut \/ tx_in # {})
    /\ tx_pc' = [tx_pc EXCEPT ![t] = "unlocking"]
    /\ UNCHANGED <<tx_lock, tx_in, tx_running, tx_overlap>>
    /\ UNCHANGED notTxVars

\* connect (lines 138-188): under the lock a client is made, which opens the
\* port, and a connection monitor is started; the device connect follows
TxConnect(t) ==
    /\ tx_pc[t] = "idle"
    /\ ~tx_open
    /\ can_acquire(tx_lock, t)
    /\ tx_lock' = acquire(tx_lock, t)
    /\ tx_open' = TRUE
    /\ tx_running' = TRUE
    /\ tx_pc' = [tx_pc EXCEPT ![t] = "locked"]
    /\ UNCHANGED <<tx_in, tx_overlap, tx_cut>>
    /\ UNCHANGED notTxVars

NextLock ==
    \/ \E t \in TxThreads : TxAcquire(t)
    \/ \E t \in TxThreads : TxBegin(t)
    \/ \E t \in TxThreads : TxEnd(t)
    \/ \E t \in TxThreads : TxRelease(t)
    \/ \E t \in TxHandlers : TxDisconnect(t)
    \/ \E t \in TxHandlers : TxClose(t)
    \/ \E t \in TxHandlers : TxConnect(t)

SpecLock == InitEncoder /\ [][NextLock]_vars

-----------------------------------------------------------------------------
(* The order in which the threads take the controller's lock and the       *)
(* registry's lock.  What a thread runs is written as the lock operations  *)
(* it performs, in order; _trigger_event calls the listeners in the        *)
(* publishing thread, and the listeners MainController registers           *)
(* (main_controller.py:95-99) broadcast, which takes clients_lock          *)
(* (osc_server.py:1336).                                                   *)

notLoVars == <<coreVars, crcVars, pollVars, cmVars, wrVars, sessVars, evVars, sdVars, txVars,
               muVars, stVars, svVars>>

\* a command handler first refreshes its client (_update_client,
\* osc_server.py:1255), then calls the controller
update_client_ops == <<"acquire_registry", "release_registry">>

\* a set_zero command that succeeds (encoder_controller.py:357-375):
\* on_zero_set is triggered inside `with self.lock`, and its listener
\* broadcasts (main_controller.py:1428-1447)
set_zero_ops ==
    update_client_ops
    \o <<"acquire_session", "acquire_registry", "release_registry", "release_session">>

\* a read command, or a set_zero that fails: no event
read_ops == update_client_ops \o <<"acquire_session", "release_session">>

\* one cycle of the poll loop (encoder_controller.py:499-593): the reads are
\* made under the lock, on_data_update is triggered after it, and its
\* listener broadcasts (main_controller.py:1382-1426)
poll_cycle_ops ==
    <<"acquire_session", "release_session", "acquire_registry", "release_registry">>

\* _on_connection_change (encoder_controller.py:722-738) when the state
\* changes: on_connection_lost or on_connection_restored is triggered inside
\* `with self.lock`, and its listener broadcasts (main_controller.py:1449-1490)
connection_change_ops ==
    <<"acquire_session", "acquire_registry", "release_registry", "release_session">>

\* _on_connection_change when the state is the one already known
connection_same_ops == <<"acquire_session", "release_session">>

LoPrograms(t) ==
    CASE t = "poll" -> {poll_cycle_ops}
      [] t = "handler" -> {set_zero_ops, read_ops}
      [] t = "supervisor" -> {connection_change_ops, connection_same_ops}

\* the next lock operation of thread t, "" when it has none
lo_next(t) == IF lo_i[t] < Len(lo_prog[t]) THEN lo_prog[t][lo_i[t] + 1] ELSE ""

\* thread t, having done what it was running, goes on to run prog
LoStart(t, prog) ==
    /\ lo_i[t] = Len(lo_prog[t])
    /\ lo_prog' = [lo_prog EXCEPT ![t] = prog]
    /\ lo_i' = [lo_i EXCEPT ![t] = 0]
    /\ UNCHANGED <<lo_session, lo_registry>>
    /\ UNCHANGED notLoVars

LoAcquireSession(t) ==
    /\ lo_next(t) = "acquire_session"
    /\ can_acquire(lo_session, t)
    /\ lo_session' = acquire(lo_session, t)
    /\ lo_i' = [lo_i EXCEPT ![t] = @ + 1]
    /\ UNCHANGED <<lo_registry, lo_prog>>
    /\ UNCHANGED notLoVars

LoReleaseSession(t) ==
    /\ lo_next(t) = "release_session"
    /\ lo_session' = release(lo_session)
    /\ lo_i' = [lo_i EXCEPT ![t] = @ + 1]
    /\ UNCHANGED <<lo_registry, lo_prog>>
    /\ UNCHANGED notLoVars

LoAcquireRegistry(t) ==
    /\ lo_next(t) = "acquire_registry"
    /\ can_acquire(lo_registry, t)
    /\ lo_registry' = acquire(lo_registry, t)
    /\ lo_i' = [lo_i EXCEPT ![t] = @ + 1]
    /\ UNCHANGED <<lo_session, lo_prog>>
    /\ UNCHANGED notLoVars

LoReleaseRegistry(t) ==
    /\ lo_next(t) = "release_registry"
    /\ lo_registry' = release(lo_registry)
    /\ lo_i' = [lo_i EXCEPT ![t] = @ + 1]
    /\ UNCHANGED <<lo_session, lo_prog>>
    /\ UNCHANGED notLoVars

NextLockOrder ==
    \/ \E t \in LoThreads : \E prog \in LoPrograms(t) : LoStart(t, prog)
    \/ \E t \in LoThreads : LoAcquireSession(t)
    \/ \E t \in LoThreads : LoReleaseSession(t)
    \/ \E t \in LoThreads : LoAcquireRegistry(t)
    \/ \E t \in LoThreads : LoReleaseRegistry(t)

SpecLockOrder == InitEncoder /\ [][NextLockOrder]_vars

-----------------------------------------------------------------------------
(* The mutations of OSCServer.clients and MainController.continuous_tasks  *)
(* and the locks held when they are made.  What a thread runs is written   *)
(* as its steps in order: taking and releasing a lock, and changing one of *)
(* the two maps.                                                           *)

notMuVars == <<coreVars, crcVars, pollVars, cmVars, wrVars, sessVars, evVars, sdVars, txVars,
               loVars, stVars, svVars>>

\* the map a step changes, "" when it changes none
map_of(step) ==
    CASE step \in {"clients_insert", "clients_last_seen", "clients_format",
                   "clients_subscribe", "clients_delete"} -> "clients"
      [] step \in {"tasks_insert", "tasks_update", "tasks_delete"} -> "tasks"
      [] OTHER -> ""

\* _update_client (osc_server.py:1243-1269): last_seen or a new entry, and
\* the sweep of expired clients, all under clients_lock
mu_update_client ==
    <<"acquire_clients", "clients_last_seen", "clients_delete", "release_clients">>

\* the subscribe command of _encoder_handler (osc_server.py:766-790): the
\* subscription is appended, or the entry made, with no lock taken
mu_subscribe == <<"clients_subscribe">>

\* _encoder_start_monitor_handler (osc_server.py:969-984) and
\* _handle_start_monitor (main_controller.py:1049-1110): _update_client, the
\* format stored with no lock taken, the task recorded under the task lock
mu_start_monitor ==
    mu_update_client \o <<"clients_format">>
    \o <<"acquire_tasks", "tasks_delete", "tasks_insert", "release_tasks">>

\* _encoder_stop_monitor_handler (osc_server.py:1026-1035) and
\* _handle_stop_monitor (main_controller.py:1168-1170): _update_client, the
\* subscription removed with no lock taken, the task removed by
\* _stop_continuous_task under the task lock
mu_stop_monitor ==
    mu_update_client \o <<"clients_subscribe">>
    \o <<"acquire_tasks", "tasks_delete", "release_tasks">>

\* _on_encoder_data_update (main_controller.py:1358-1426): the tasks'
\* last-sent fields are set under the task lock; broadcast
\* (osc_server.py:1336-1367) removes the clients it could not reach under
\* clients_lock
mu_data_update ==
    <<"acquire_tasks", "tasks_update", "release_tasks",
      "acquire_clients", "clients_delete", "release_clients">>

MuPrograms(t) ==
    IF t = "poll" THEN {mu_data_update}
    ELSE {mu_subscribe, mu_start_monitor, mu_stop_monitor}

\* the next step of thread t, "" when it has none
mu_next(t) == IF mu_i[t] < Len(mu_prog[t]) THEN mu_prog[t][mu_i[t] + 1] ELSE ""

\* thread t, having done what it was running, goes on to run prog
MuStart(t, prog) ==
    /\ mu_i[t] = Len(mu_prog[t])
    /\ mu_prog' = [mu_prog EXCEPT ![t] = prog]
    /\ mu_i' = [mu_i EXCEPT ![t] = 0]
    /\ UNCHANGED <<mu_clients_lock, mu_task_lock, mu_log>>
    /\ UNCHANGED notMuVars

\* `with self.clients_lock` (re-entrant) and `with self.continuous_task_lock`
\* (a plain Lock)
MuAcquire(t) ==
    /\ IF mu_next(t) = "acquire_clients"
       THEN /\ can_acquire(mu_clients_lock, t)
            /\ mu_clients_lock' = acquire(mu_clients_lock, t)
            /\ UNCHANGED mu_task_lock
       ELSE /\ mu_next(t) = "acquire_tasks"
            /\ mu_task_lock.owner = None
            /\ mu_task_lock' = acquire(mu_task_lock, t)
            /\ UNCHANGED mu_clients_lock
    /\ mu_i' = [mu_i EXCEPT ![t] = @ + 1]
    /\ UNCHANGED <<mu_prog, mu_log>>
    /\ UNCHANGED notMuVars

MuRelease(t) ==
    /\ IF mu_next(t) = "release_clients"
       THEN /\ mu_clients_lock' = release(mu_clients_lock)
            /\ UNCHANGED mu_task_lock
       ELSE /\ mu_next(t) = "release_tasks"
            /\ mu_task_lock' = release(mu_task_lock)
            /\ UNCHANGED mu_clients_lock
    /\ mu_i' = [mu_i EXCEPT ![t] = @ + 1]
    /\ UNCHANGED <<mu_prog, mu_log>>
    /\ UNCHANGED notMuVars

\* a change of one of the maps
MuMutate(t) ==
    /\ map_of(mu_next(t)) # ""
    /\ mu_log' = mu_log \cup
           {[step |-> mu_next(t),
             held |-> IF map_of(mu_next(t)) = "clients"
                      THEN mu_clients_lock.owner = Some(t)
                      ELSE mu_task_lock.owner = Some(t)]}
    /\ mu_i' = [mu_i EXCEPT ![t] = @ + 1]
    /\ UNCHANGED <<mu_clients_lock, mu_task_lock, mu_prog>>
    /\ UNCHANGED notMuVars

NextMutations ==
    \/ \E t \in MuThreads : \E prog \in MuPrograms(t) : MuStart(t, prog)
    \/ \E t \in MuThreads : MuAcquire(t)
    \/ \E t \in MuThreads : MuRelease(t)
    \/ \E t \in MuThreads : MuMutate(t)

SpecMutations == InitEncoder /\ [][NextMutations]_vars

-----------------------------------------------------------------------------
(* A stop call made while a background loop is in the sleep between two    *)
(* iterations.  Times are in tenths of a second.                           *)

notStVars == <<coreVars, crcVars, pollVars, cmVars, wrVars, sessVars, evVars, sdVars, txVars,
               loVars, muVars, svVars>>

Loops == {"poll", "sender", "heartbeat", "supervisor"}

\* the sleep of each loop: stop_monitoring_event.wait(interval) with the
\* default interval of 0.5 s (encoder_controller.py:469, 593),
\* message_queue.get(timeout=1.0) (osc_server.py:183),
\* time.sleep(self.heartbeat_interval) with 240 s (osc_server.py:125, 526),
\* time.sleep(self.check_interval) with 5.0 s (monitoring.py:25, 104)
sleep_of == [poll |-> 5, sender |-> 10, heartbeat |-> 2400, supervisor |-> 50]

\* the timeout of the join in the loop's stop call: stop_monitoring
\* (encoder_controller.py:655), OSCServer.stop (osc_server.py:573, 584),
\* ConnectionMonitor.stop (monitoring.py:60)
join_timeout_of == [poll |-> 30, sender |-> 20, heartbeat |-> 20, supervisor |-> 10]

\* whether the loop's sleep ends when its stop call is made: only the poll
\* loop waits on the event its stop call sets
wakes_on_stop(loop) == loop = "poll"

\* how long a loop that has slept for elapsed goes on sleeping after the
\* stop request
sleep_left(loop, elapsed) ==
    IF wakes_on_stop(loop) THEN 0 ELSE sleep_of[loop] - elapsed

\* the stop call of a loop made when the loop has been asleep for elapsed;
\* the loop tests its running flag or event when the sleep is over and ends
StopWhileAsleep(loop, elapsed) ==
    /\ st_loop = ""
    /\ st_loop' = loop
    /\ st_elapsed' = elapsed
    /\ st_left' = sleep_left(loop, elapsed)
    /\ st_alive' = (sleep_left(loop, elapsed) > join_timeout_of[loop])
    /\ UNCHANGED notStVars

NextStop ==
    \E loop \in Loops : \E elapsed \in 0..(sleep_of[loop] - 1) : StopWhileAsleep(loop, elapsed)

SpecStop == InitEncoder /\ [][NextStop]_vars

-----------------------------------------------------------------------------
(* The sender thread of OSCServer over the life of the server               *)
(* (osc_server.py:108-204, 484-518, 558-612, 1287-1318)                     *)

notSvVars == <<coreVars, crcVars, pollVars, cmVars, wrVars, sessVars, evVars, sdVars, txVars,
               loVars, muVars, stVars>>

MaxSvMessages == 3
MaxSvCalls == 4

\* the clients a response is addressed to
SvClients == {1, 2}

\* start() (lines 484-518): a running server answers True at once; otherwise
\* the UDP server is made, running is set and the server and heartbeat
\* threads are started.  bound is whether the socket could be bound: when it
\* could not, line 517 leaves running False.  _start_send_thread is not
\* called here.
SvStart(bound) ==
    /\ sv_calls < MaxSvCalls
    /\ sv_calls' = sv_calls + 1
    /\ sv_running' = (sv_running \/ bound)
    /\ UNCHANGED <<sv_send_thread, sv_queue, sv_sent, sv_made>>
    /\ UNCHANGED notSvVars

\* stop() (lines 558-612): nothing when not running; otherwise running is
\* cleared and the sender is joined for 2 s (lines 580-586), within which
\* its queue wait of 1 s (line 183) is over and its loop test (line 179)
\* fails
SvStop ==
    /\ sv_calls < MaxSvCalls
    /\ sv_calls' = sv_calls + 1
    /\ IF sv_running
       THEN /\ sv_running' = FALSE
            /\ sv_send_thread' = "dead"
       ELSE UNCHANGED <<sv_running, sv_send_thread>>
    /\ UNCHANGED <<sv_queue, sv_sent, sv_made>>
    /\ UNCHANGED notSvVars

\* send_response (lines 1287-1318) with a client address: the message is
\* put on the queue; during notes whether the server was running
SvSendResponse(client) ==
    /\ sv_made < MaxSvMessages
    /\ sv_made' = sv_made + 1
    /\ sv_queue' = Append(sv_queue, [id |-> sv_made + 1, to |-> client, during |-> sv_running])
    /\ UNCHANGED <<sv_running, sv_send_thread, sv_sent, sv_calls>>
    /\ UNCHANGED notSvVars

\* one test of the loop condition of _send_worker (line 179) followed by
\* the body when it holds (lines 180-198): the thread ends when running is
\* False, and otherwise takes the message at the head of the queue, if
\* there is one, and hands it to _send_data
SvSendWorker ==
    /\ sv_send_thread = "alive"
    /\ IF ~sv_running
       THEN /\ sv_send_thread' = "dead"
            /\ UNCHANGED <<sv_queue, sv_sent>>
       ELSE /\ sv_queue # <<>>
            /\ sv_queue' = Tail(sv_queue)
            /\ sv_sent' = sv_sent \cup {Head(sv_queue)}
            /\ UNCHANGED sv_send_thread
    /\ UNCHANGED <<sv_running, sv_made, sv_calls>>
    /\ UNCHANGED notSvVars

NextSender ==
    \/ \E bound \in BOOLEAN : SvStart(bound)
    \/ SvStop
    \/ \E client \in SvClients : SvSendResponse(client)
    \/ SvSendWorker

SpecSender == InitEncoder /\ [][NextSender]_vars

-----------------------------------------------------------------------------
(* The CRC functions (crc.py), applied to one message: the message is      *)
(* framed by append_crc, the line may invert one bit of the frame, and the *)
(* receiver runs verify_crc on what arrived.                                *)

\* bytes a message is made of, and the longest message
ByteValues == {0, 1, 128, 165, 255}
MaxCrcLen == 3

RECURSIVE xor(_, _)
xor(a, b) ==
    IF a = 0 THEN b
    ELSE IF b = 0 THEN a
    ELSE (((a % 2) + (b % 2)) % 2) + 2 * xor(a \div 2, b \div 2)

\* the inner loop: `for _ in range(8)` of calculate_crc
RECURSIVE crc_shift(_, _)
crc_shift(crc, n) ==
    IF n = 0 THEN crc
    ELSE IF crc % 2 = 1 THEN crc_shift(xor(crc \div 2, 40961), n - 1)
    ELSE crc_shift(crc \div 2, n - 1)

RECURSIVE crc_from(_, _, _)
crc_from(crc, data, i) ==
    IF i > Len(data) THEN crc
    ELSE crc_from(crc_shift(xor(crc, data[i]), 8), data, i + 1)

calculate_crc(data) == crc_from(65535, data, 1)

append_crc_high_first(data) ==
    LET crc == calculate_crc(data)
    IN data \o <<(crc \div 256) % 256, crc % 256>>

append_crc(data) ==
    LET crc == calculate_crc(data)
    IN data \o <<crc % 256, (crc \div 256) % 256>>

verify_crc_low_byte(data) ==
    IF Len(data) < 2 THEN FALSE
    ELSE calculate_crc(SubSeq(data, 1, Len(data) - 2)) % 256 = data[Len(data) - 1]

verify_crc(data) ==
    IF Len(data) < 2 THEN FALSE
    ELSE LET message == SubSeq(data, 1, Len(data) - 2)
             received_crc == data[Len(data)] * 256 + data[Len(data) - 1]
             calculated_crc == calculate_crc(message)
         IN calculated_crc = received_crc

\* bit b (0 = least significant) of byte x inverted
flip_bit(x, b) ==
    IF (x \div (2 ^ b)) % 2 = 1 THEN x - 2 ^ b ELSE x + 2 ^ b

\* bit i of the frame inverted; bits are counted from 0, eight to a byte
flip_frame_bit(frame, i) ==
    [frame EXCEPT ![(i \div 8) + 1] = flip_bit(@, (i % 8))]

RECURSIVE seqs_upto(_, _)
seqs_upto(S, n) ==
    IF n = 0 THEN {<<>>}
    ELSE LET shorter == seqs_upto(S, n - 1)
         IN shorter \cup {Append(q, x) : q \in shorter, x \in S}

CrcMessages == seqs_upto(ByteValues, MaxCrcLen)

AppendCrc ==
    /\ crc_pc = "data"
    /\ crc_frame' = append_crc(crc_data)
    /\ crc_pc' = "framed"
    /\ UNCHANGED <<crc_data, crc_flip, crc_ok>>
    /\ UNCHANGED notCrcVars

LineFlipsBit(i) ==
    /\ crc_pc = "framed"
    /\ crc_flip = None
    /\ i < 8 * Len(crc_frame)
    /\ crc_frame' = flip_frame_bit(crc_frame, i)
    /\ crc_flip' = Some(i)
    /\ UNCHANGED <<crc_pc, crc_data, crc_ok>>
    /\ UNCHANGED notCrcVars

VerifyCrc ==
    /\ crc_pc = "framed"
    /\ crc_ok' = verify_crc(crc_frame)
    /\ crc_pc' = "verified"
    /\ UNCHANGED <<crc_data, crc_frame, crc_flip>>
    /\ UNCHANGED notCrcVars

InitCrc ==
    /\ serial_available = FALSE
    /\ MbInit /\ RrInit /\ EncInit /\ EncOutInit
    /\ ServerIdle
    /\ PollIdle /\ CmIdle /\ WrIdle /\ SessIdle /\ EvIdle /\ SdIdle /\ TxIdle /\ LateIdle
    /\ crc_pc = "data"
    /\ crc_data \in CrcMessages
    /\ crc_frame = <<>>
    /\ crc_flip = None
    /\ crc_ok = FALSE

NextCrc ==
    \/ AppendCrc
    \/ \E i \in 0..(8 * (MaxCrcLen + 2) - 1) : LineFlipsBit(i)
    \/ VerifyCrc

SpecCrc == InitCrc /\ [][NextCrc]_vars

-----------------------------------------------------------------------------
(* One run of monitoring_task followed from its start to its end           *)
(* (encoder_controller.py:491-617), with every event it hands to           *)
(* _trigger_event, its local error counter and its clock.  Around it:      *)
(* stop_monitoring sets the stop event, a failed connect or the connection *)
(* monitor's callback clears self.connected, disconnect does both and      *)
(* drops the client.                                                       *)
(* The part of a cycle under self.lock is one step.  Time is in seconds.   *)

\* max_failure_time (line 496)
max_failure_time == 10
\* the clock is not followed beyond this many seconds without a good read
MaxSince == 11
\* cycles of one run that are followed
MaxPollCycles == 13
\* the interval argument of start_monitoring, and the seconds a position
\* read takes
PollIntervals == {1, 3}
PollReadTimes == {0, 1}

later(since, dt) == IF since + dt > MaxSince THEN MaxSince ELSE since + dt

\* while not self.stop_monitoring_event.is_set() (line 499)
PlWhile ==
    /\ pl_pc = "while"
    /\ pl_pc' = IF stop_monitoring_event THEN "finally" ELSE "body"
    /\ pl_events' = <<>>
    /\ UNCHANGED <<pl_interval, pl_errs, pl_since, pl_out, pl_nil_run, pl_prev_run,
                   pl_error_events, pl_nil_reads, pl_cycles>>
    /\ UNCHANGED <<connected, modbus_client, stop_monitoring_event>>
    /\ UNCHANGED notPollVars

\* a failed position read never breaks the loop (a mutation of the loop's
\* answer to a nil read)
nil_read_tolerated(errs, since) ==
    [errs |-> errs, exit |-> FALSE, events |-> <<"on_monitor_error">>]

\* a failed position read below the ceilings raises no event (a mutation of
\* lines 536-540)
nil_read_silent(errs, since) ==
    LET exit == (errs + 1 > max_consecutive_errors) \/ (since > max_failure_time)
    IN [errs |-> errs + 1, exit |-> exit,
        events |-> IF exit THEN <<"on_monitor_error">> ELSE <<>>]

\* lines 514-542: what a nil position read does to the counter, whether the
\* loop breaks, given the seconds since the last good read, and the events
\* raised: lines 521, 530 and 537 each raise on_monitor_error
nil_read(errs, since) ==
    [errs |-> errs + 1,
     exit |-> (errs + 1 > max_consecutive_errors) \/ (since > max_failure_time),
     events |-> <<"on_monitor_error">>]

\* the part of a cycle under self.lock (lines 502-572): position is what
\* read_encoder_position returns (None or a value), dt the seconds it took
PlBody(position, dt) ==
    /\ pl_pc = "body"
    /\ pl_cycles < MaxPollCycles
    /\ pl_cycles' = pl_cycles + 1
    /\ IF ~connected
       THEN /\ pl_events' = <<"on_monitor_error">>
            /\ pl_error_events' = pl_error_events + 1
            /\ pl_pc' = "finally"
            /\ pl_out' = "not_connected"
            /\ UNCHANGED <<pl_errs, pl_since, pl_nil_run, pl_prev_run, pl_nil_reads>>
       ELSE IF position = None
       THEN LET since == later(pl_since, dt)
                r == nil_read(pl_errs, since)
            IN /\ pl_errs' = r.errs
               /\ pl_since' = since
               /\ pl_events' = r.events
               /\ pl_error_events' = pl_error_events + Len(r.events)
               /\ pl_pc' = IF r.exit THEN "finally" ELSE "nilwait"
               /\ pl_out' = "nil"
               /\ pl_nil_run' = pl_nil_run + 1
               /\ pl_nil_reads' = pl_nil_reads + 1
               /\ UNCHANGED pl_prev_run
       ELSE /\ pl_errs' = 0
            /\ pl_since' = 0
            /\ pl_events' = <<>>
            /\ pl_pc' = "package"
            /\ pl_out' = "ok"
            /\ pl_nil_run' = 0
            /\ pl_prev_run' = pl_nil_run
            /\ UNCHANGED <<pl_error_events, pl_nil_reads>>
    /\ UNCHANGED pl_interval
    /\ UNCHANGED <<connected, modbus_client, stop_monitoring_event>>
    /\ UNCHANGED notPollVars

\* the data package and on_data_update (lines 577-590); with the client gone
\* line 579 raises and the except clause (lines 595-611) counts an error
PlPackage ==
    /\ pl_pc = "package"
    /\ IF modbus_client = None
       THEN /\ pl_errs' = pl_errs + 1
            /\ pl_events' = <<"on_monitor_error">>
            /\ pl_error_events' = pl_error_events + 1
            /\ pl_pc' = IF pl_errs + 1 > max_consecutive_errors THEN "finally" ELSE "wait"
            /\ pl_out' = "raised"
       ELSE /\ pl_events' = <<"on_data_update">>
            /\ pl_pc' = "wait"
            /\ UNCHANGED <<pl_errs, pl_error_events, pl_out>>
    /\ UNCHANGED <<pl_interval, pl_since, pl_nil_run, pl_prev_run, pl_nil_reads, pl_cycles>>
    /\ UNCHANGED <<connected, modbus_client, stop_monitoring_event>>
    /\ UNCHANGED notPollVars

\* self.stop_monitoring_event.wait(interval) (lines 541, 593, 614): over at
\* once when the event is set, after interval seconds otherwise
PlWait ==
    /\ pl_pc \in {"nilwait", "wait"}
    /\ pl_since' = IF stop_monitoring_event THEN pl_since ELSE later(pl_since, pl_interval)
    /\ pl_pc' = "while"
    /\ pl_events' = <<>>
    /\ UNCHANGED <<pl_interval, pl_errs, pl_out, pl_nil_run, pl_prev_run,
                   pl_error_events, pl_nil_reads, pl_cycles>>
    /\ UNCHANGED <<connected, modbus_client, stop_monitoring_event>>
    /\ UNCHANGED notPollVars

\* finally (lines 615-617)
PlFinally ==
    /\ pl_pc = "finally"
    /\ pl_events' = <<"on_monitoring_stopped">>
    /\ pl_pc' = "done"
    /\ UNCHANGED <<pl_interval, pl_errs, pl_since, pl_out, pl_nil_run, pl_prev_run,
                   pl_error_events, pl_nil_reads, pl_cycles>>
    /\ UNCHANGED <<connected, modbus_client, stop_monitoring_event>>
    /\ UNCHANGED notPollVars

\* stop_monitoring sets the event (line 650)
PlStopRequested ==
    /\ pl_pc # "done"
    /\ ~stop_monitoring_event
    /\ stop_monitoring_event' = TRUE
    /\ UNCHANGED <<connected, modbus_client>>
    /\ UNCHANGED pollVars
    /\ UNCHANGED notPollVars

\* self.connected is cleared under self.lock, which the loop holds during its
\* wait after a nil read: by connect when the device does not answer (line
\* 162), or by _on_connection_change(False) (lines 729-731)
PlConnectionLost ==
    /\ pl_pc \notin {"done", "nilwait"}
    /\ connected
    /\ connected' = FALSE
    /\ UNCHANGED <<modbus_client, stop_monitoring_event>>
    /\ UNCHANGED pollVars
    /\ UNCHANGED notPollVars

\* disconnect (lines 953-989), under self.lock: the event is set, the client
\* dropped and self.connected cleared
PlDisconnect ==
    /\ pl_pc \notin {"done", "nilwait"}
    /\ modbus_client # None
    /\ stop_monitoring_event' = TRUE
    /\ modbus_client' = None
    /\ connected' = FALSE
    /\ UNCHANGED pollVars
    /\ UNCHANGED notPollVars

\* start_monitoring has found the monitor connected and started the thread
InitPoll ==
    /\ serial_available = TRUE
    /\ MbInit /\ RrInit /\ EncOutInit
    /\ connected = TRUE
    /\ modbus_client = Some(1)
    /\ last_position = None
    /\ current_lap_count = 0
    /\ position_threshold = None
    /\ consecutive_errors = 0
    /\ ServerIdle
    /\ CrcIdle /\ CmIdle /\ WrIdle /\ SessIdle /\ EvIdle /\ SdIdle /\ TxIdle /\ LateIdle
    /\ pl_pc = "while"
    /\ pl_interval \in PollIntervals
    /\ pl_errs = 0
    /\ pl_since = 0
    /\ pl_events = <<>>
    /\ pl_out = ""
    /\ pl_nil_run = 0
    /\ pl_prev_run = 0
    /\ pl_error_events = 0
    /\ pl_nil_reads = 0
    /\ pl_cycles = 0

NextPoll ==
    \/ PlWhile
    \/ \E position \in {None} \cup {Some(v) : v \in PollPositions}, dt \in PollReadTimes :
           PlBody(position, dt)
    \/ PlPackage
    \/ PlWait
    \/ PlFinally
    \/ PlStopRequested
    \/ PlConnectionLost
    \/ PlDisconnect

SpecPoll == InitPoll /\ [][NextPoll]_vars

-----------------------------------------------------------------------------
(* ConnectionMonitor (monitoring.py:22-163) watching the ModbusClient, with *)
(* EncoderController._on_connection_change as its listener.  One step is    *)
(* one turn of _monitor_task's loop and the sleep after it.  Time is in     *)
(* seconds.                                                                 *)

\* defaults of ConnectionMonitor.__init__ (line 25)
check_interval == 5
max_retries == 3
\* max_health_failures (line 87)
max_health_failures == 3
\* seconds between health checks (line 138) and between rounds of
\* reconnection attempts (line 132)
health_check_period == 30
retry_period == 60

\* time.time() when the monitor starts: last_connection_time starts at 0
\* (line 39), which any clock reading is more than 60 s after
CmStartTime == 100
\* turns of the loop that are followed
MaxCmTicks == 30

\* the listener (encoder_controller.py:722-737): the controller's connected
\* flag after the call, and the event it raises
on_connection_change(was, flag) ==
    IF was # flag
    THEN [connected |-> flag,
          events |-> IF flag THEN <<"on_connection_restored">> ELSE <<"on_connection_lost">>]
    ELSE [connected |-> was, events |-> <<>>]

\* _handle_disconnected_device (lines 106-133): conn_ok is what
\* device.connect() returns
handle_disconnected_device(retry_count, last_connection_time, t, conn_ok) ==
    LET rc == retry_count + 1
    IN IF rc <= max_retries
       THEN IF conn_ok
            THEN [retry_count |-> 0, last_connection_time |-> t, device |-> TRUE,
                  note |-> Some([connected |-> TRUE, error |-> ""]),
                  tick |-> "attempt_ok"]
            ELSE [retry_count |-> rc, last_connection_time |-> last_connection_time,
                  device |-> FALSE,
                  note |-> Some([connected |-> FALSE, error |-> "connect failed"]),
                  tick |-> "attempt_failed"]
       ELSE [retry_count |-> IF t - last_connection_time > retry_period THEN 1 ELSE rc,
             last_connection_time |-> last_connection_time,
             device |-> FALSE,
             note |-> IF rc = max_retries + 1
                      THEN Some([connected |-> FALSE, error |-> "max retries exceeded"])
                      ELSE None,
             tick |-> "no_attempt"]

\* _perform_health_check (lines 135-163): result is what read_register
\* returned.  consecutive_failures is a parameter: what is added to it is
\* gone when the call returns.
perform_health_check(consecutive_failures, max_failures, last_connection_time, t, result) ==
    IF result # None
    THEN [last_connection_time |-> t, device |-> TRUE, note |-> None, tick |-> "health_ok"]
    ELSE IF consecutive_failures + 1 >= max_failures
         THEN [last_connection_time |-> last_connection_time, device |-> FALSE,
               note |-> Some([connected |-> FALSE, error |-> "health check failed"]),
               tick |-> "health_failed"]
         ELSE [last_connection_time |-> last_connection_time, device |-> TRUE,
               note |-> None, tick |-> "health_failed"]

\* one turn of the loop of _monitor_task (lines 89-104)
CmTick(conn_ok, outs) ==
    /\ cm_now < CmStartTime + check_interval * MaxCmTicks
    /\ cm_now' = cm_now + check_interval
    /\ IF ~dev_connected
       THEN LET r == handle_disconnected_device(cm_retry_count, cm_last_connection_time,
                                                cm_now, conn_ok /\ serial_available)
                l == IF r.note = None THEN [connected |-> connected, events |-> <<>>]
                     ELSE on_connection_change(connected, Val(r.note).connected)
            IN /\ cm_retry_count' = r.retry_count
               /\ cm_last_connection_time' = r.last_connection_time
               /\ dev_connected' = r.device
               /\ cm_note' = r.note
               /\ cm_tick' = r.tick
               /\ connected' = l.connected
               /\ events' = l.events
               /\ cm_failed_attempts' = IF r.tick = "attempt_ok" THEN 0
                                        ELSE IF r.tick = "attempt_failed"
                                        THEN cm_failed_attempts + 1
                                        ELSE cm_failed_attempts
               /\ cm_last_attempt' = IF r.tick = "no_attempt" THEN cm_last_attempt
                                     ELSE Some(cm_now)
               /\ UNCHANGED <<error_count, cm_failed_checks>>
       ELSE /\ cm_retry_count' = 0
            /\ IF cm_now - cm_last_connection_time > health_check_period
               THEN LET p == read_register(ENCODER_SINGLE_VALUE, serial_available,
                                           dev_connected, TRUE, outs)
                        r == perform_health_check(cm_health_failures, max_health_failures,
                                                  cm_last_connection_time, cm_now, p.value)
                        l == IF r.note = None THEN [connected |-> connected, events |-> <<>>]
                             ELSE on_connection_change(connected, Val(r.note).connected)
                    IN /\ error_count + p.err <= MaxErrors
                       /\ error_count' = error_count + p.err
                       /\ cm_last_connection_time' = r.last_connection_time
                       /\ dev_connected' = r.device
                       /\ cm_note' = r.note
                       /\ cm_tick' = r.tick
                       /\ connected' = l.connected
                       /\ events' = l.events
                       /\ cm_failed_checks' = IF r.tick = "health_ok" THEN 0
                                              ELSE cm_failed_checks + 1
               ELSE /\ cm_note' = None
                    /\ cm_tick' = "no_check"
                    /\ events' = <<>>
                    /\ UNCHANGED <<error_count, cm_last_connection_time, dev_connected,
                                   connected, cm_failed_checks>>
            /\ UNCHANGED <<cm_failed_attempts, cm_last_attempt>>
    /\ UNCHANGED cm_health_failures
    /\ UNCHANGED <<serial_available, encoder_resolution, encoder_sampling_time_ms>>
    /\ UNCHANGED <<modbus_client, last_position, current_lap_count, position_threshold,
                   consecutive_errors, enc_ret>>
    /\ UNCHANGED <<rrVars, oscVars, mainVars, thrVars, crcVars, pollVars, wrVars, sessVars,
                   evVars, sdVars, txVars, lateVars>>

\* the device is closed under the monitor (ModbusClient.close,
\* client.py:168-178)
CmDeviceClosed ==
    /\ dev_connected
    /\ dev_connected' = FALSE
    /\ UNCHANGED <<serial_available, error_count, encoder_resolution,
                   encoder_sampling_time_ms>>
    /\ UNCHANGED <<rrVars, encVars, encOut, oscVars, mainVars, thrVars, crcVars, pollVars,
                   wrVars, sessVars, evVars, sdVars, txVars, lateVars>>
    /\ UNCHANGED cmVars

\* connect has succeeded and started the monitor
\* (encoder_controller.py:162-175)
InitConnMon ==
    /\ serial_available = TRUE
    /\ dev_connected = TRUE
    /\ error_count = 0
    /\ encoder_resolution = 4096
    /\ encoder_sampling_time_ms = 100
    /\ RrInit /\ EncOutInit
    /\ connected = TRUE
    /\ modbus_client = Some(1)
    /\ last_position = None
    /\ current_lap_count = 0
    /\ position_threshold = Some(2048)
    /\ consecutive_errors = 0
    /\ now = 0
    /\ osc_running = TRUE
    /\ send_thread_alive = TRUE
    /\ clients = <<>>
    /\ message_queue = <<>>
    /\ wire = {}
    /\ refused = {}
    /\ osc_ret = OscRet("none")
    /\ continuous_tasks = <<>>
    /\ HandlersIdle
    /\ enc_lock = [owner |-> None, depth |-> 0]
    /\ stop_monitoring_event = FALSE
    /\ monitoring_thread = None
    /\ connection_monitor = Some(1)
    /\ thr_pc = [t \in ThreadIds |-> "unborn"]
    /\ thr_loc = [t \in ThreadIds |-> NoThrLoc]
    /\ CrcIdle /\ PollIdle /\ WrIdle /\ SessIdle /\ EvIdle /\ SdIdle /\ TxIdle /\ LateIdle
    /\ cm_now = CmStartTime
    /\ cm_retry_count = 0
    /\ cm_last_connection_time = 0
    /\ cm_health_failures = 0
    /\ cm_note = None
    /\ cm_tick = "none"
    /\ cm_failed_checks = 0
    /\ cm_failed_attempts = 0
    /\ cm_last_attempt = None

NextConnMon ==
    \/ \E conn_ok \in BOOLEAN, outs \in PollPositionOuts : CmTick(conn_ok, outs)
    \/ CmDeviceClosed

SpecConnMon == InitConnMon /\ [][NextConnMon]_vars

-----------------------------------------------------------------------------
(* Claims about the monitor tasks and the poll loop, under Spec *)

\* the ids of the running tasks a source owns
tasks_of(tasks, source) ==
    {tasks[i].id : i \in {j \in 1..Len(tasks) : tasks[j].source = source /\ tasks[j].running}}

one_task_per_key(tasks) ==
    \A i, j \in 1..Len(tasks) :
        (i # j /\ tasks[i].running /\ tasks[j].running) => tasks[i].source # tasks[j].source

alive_threads == {t \in ThreadIds : alive(t)}

C2_OldLoopStopped ==
    [][\A h \in Handlers :
          (/\ hloc[h].existing # None
           /\ \/ hpc[h] = "st_record" /\ hpc'[h] = "return"
              \/ hpc[h] = "st_start_locked" /\ monitoring_thread' # monitoring_thread)
          => ~is_alive(hloc[h].old_thread)]_vars

\* C3 as stated: at most one poll thread is alive, and a start_monitoring call
\* that returns while a loop is alive has spawned no thread and returns
\* success with status "running".
C3_AlreadyRunning ==
    [][/\ Cardinality(alive_threads') <= 1
       /\ \A h \in Handlers :
            (/\ alive_threads # {}
             /\ hpc[h] \in {"st_start", "st_start_locked"}
             /\ hpc'[h] \in {"st_record", "return"})
            => /\ \A t \in ThreadIds : thr_pc[t] = "unborn" => thr_pc'[t] = "unborn"
               /\ hpc'[h] = "st_record"
               /\ hloc'[h].st = "running"]_vars

\* C3 amended: at most one poll thread is alive, and a start_monitoring call
\* that returns while a loop is alive has spawned no thread; it returns
\* success with status "running" when it found the controller connected, and
\* the failure "not connected" when it did not.
C3_AlreadyRunningIfConnected ==
    [][/\ Cardinality(alive_threads') <= 1
       /\ \A h \in Handlers :
            (/\ alive_threads # {}
             /\ hpc[h] \in {"st_start", "st_start_locked"}
             /\ hpc'[h] \in {"st_record", "return"})
            => /\ \A t \in ThreadIds : thr_pc[t] = "unborn" => thr_pc'[t] = "unborn"
               /\ IF hpc[h] = "st_start"
                  THEN /\ ~connected
                       /\ hloc'[h].status = "error"
                       /\ hloc'[h].message = "not connected"
                  ELSE /\ hpc'[h] = "st_record"
                       /\ hloc'[h].st = "running"]_vars

\* start_monitoring has just returned "running" to a handler, a loop being
\* alive
C3_Witness ==
    \E h \in Handlers :
        /\ hpc[h] = "st_record"
        /\ hloc[h].st = "running"
        /\ Cardinality(alive_threads) = 1

\* C4: a stop_monitoring call that signalled a live loop which was not in
\* serial I/O finds the thread ended when its join returns, returns success
\* and clears the handle.
C4_StopTerminates ==
    [][\A h \in Handlers :
          (hpc[h] = "sm_join" /\ hpc'[h] # "sm_join" /\ hloc[h].sm_at # "poll")
          => /\ stop_monitoring_result(Val(monitoring_thread)) = "success"
             /\ monitoring_thread' = None]_vars

\* C35: on the step on which a start_monitor command records its task and
\* returns success, a poll thread is alive, the stop event is not set, and
\* the thread polls at the interval the command asked for.
C35_SuccessMeansLiveLoop ==
    [][\A h \in Handlers :
          (hpc[h] = "st_record" /\ hpc'[h] = "return")
          => /\ is_alive(monitoring_thread)
             /\ ~stop_monitoring_event
             /\ thr_loc[Val(monitoring_thread)].interval = hcmd[h].interval]_vars

\* the poll thread has ended without having been told to stop: the handle
\* still names it and the stop event is clear (encoder_controller.py:499-617)
terminated_on_its_own ==
    /\ monitoring_thread # None
    /\ thr_pc[Val(monitoring_thread)] = "dead"
    /\ ~stop_monitoring_event

\* C36: when no command is being handled and the poll loop has terminated on
\* its own, no task of the task map is recorded as running.
C36_NoRunningTaskWithoutLoop ==
    ((\A h \in Handlers : hpc[h] \in {"idle", "return"}) /\ terminated_on_its_own)
    => \A i \in 1..Len(continuous_tasks) : ~continuous_tasks[i].running

\* handler h takes a step
handler_moves(h) == <<hpc[h], hcmd[h], hloc[h]>> # <<hpc'[h], hcmd'[h], hloc'[h]>>

\* C21: a start_monitor command with an interval under 0.1 s returns an error
\* on the step it is received: the task map is unchanged, so a task the
\* client had stays recorded and running, and the poll loop is neither
\* stopped nor started.
C21_ShortIntervalRejected ==
    [][\A h \in Handlers :
          (/\ handler_moves(h)
           /\ hpc[h] \in {"idle", "return"}
           /\ hcmd'[h].op = "start_monitor"
           /\ hcmd'[h].interval < min_interval)
          => /\ hpc'[h] = "return"
             /\ hloc'[h].status = "error"
             /\ continuous_tasks' = continuous_tasks
             /\ tasks_of(continuous_tasks', hcmd'[h].source)
                    = tasks_of(continuous_tasks, hcmd'[h].source)
             /\ UNCHANGED <<task_lock, tasks_made>>
             /\ UNCHANGED <<monitoring_thread, stop_monitoring_event, thr_pc, thr_loc>>]_vars

\* a start_monitor with a short interval has been rejected for a client whose
\* task is recorded and running, the poll loop alive
C21_Witness ==
    \E h \in Handlers :
        /\ hpc[h] = "return"
        /\ hcmd[h].op = "start_monitor"
        /\ hcmd[h].interval < min_interval
        /\ hloc[h].status = "error"
        /\ tasks_of(continuous_tasks, hcmd[h].source) # {}
        /\ is_alive(monitoring_thread)

\* the members of a sequence
Range(q) == {q[i] : i \in 1..Len(q)}

\* C22: a stop_monitor whose task id is not in the task map returns an error
\* whose available_tasks are the ids in the map on the step that finds the id
\* missing, whatever other clients did meanwhile, and that step leaves the
\* task map and the poll loop as they were.
C22_AvailableTasksCurrent ==
    [][\A h \in Handlers :
          (hpc[h] = "sp_one" /\ hpc'[h] = "return" /\ hloc'[h].status = "error")
          => /\ Range(hloc'[h].active_tasks) = Range(task_ids(continuous_tasks))
             /\ continuous_tasks' = continuous_tasks
             /\ UNCHANGED <<monitoring_thread, stop_monitoring_event, thr_pc, thr_loc>>]_vars

-----------------------------------------------------------------------------
(* Claims about the lap counter and the direction, under SpecEncoder *)

\* the lap-change events triggered by the last operation
lap_events == SelectSeq(events, LAMBDA e : e.name = "on_lap_change")

\* C9: after a position sample p is taken with previous sample l and wrap
\* threshold t, the lap count has gone up by one when p - l < -t, down by one
\* when p - l > t, and is unchanged otherwise or when there was no previous
\* sample; a lap-change event carrying the new count is triggered exactly when
\* the count changed; the last position is p.  With threshold 2048 the samples
\* 4090, 10 take the count from 0 to 1 and the samples 100, 150 leave it alone.
C9_LapCount ==
    (enc_ret.op = "read_position" /\ enc_ret.ok) =>
        LET p == Val(enc_ret.value)
            l0 == enc_ret.prev_last
            n0 == enc_ret.prev_laps
            t == Val(position_threshold)
        IN /\ last_position = Some(p)
           /\ (l0 = None) => current_lap_count = n0
           /\ (l0 # None /\ p - Val(l0) < -t) => current_lap_count = n0 + 1
           /\ (l0 # None /\ p - Val(l0) > t) => current_lap_count = n0 - 1
           /\ (l0 # None /\ Abs(p - Val(l0)) <= t) => current_lap_count = n0
           /\ IF current_lap_count # n0
              THEN Len(lap_events) = 1 /\ lap_events[1].laps = current_lap_count
              ELSE Len(lap_events) = 0
           /\ (t = 2048 /\ l0 = Some(4090) /\ p = 10 /\ n0 = 0) => current_lap_count = 1
           /\ (t = 2048 /\ l0 = Some(100) /\ p = 150) => current_lap_count = n0

\* the samples 4090, 10 have been read and the lap count went from 0 to 1
C9_Witness ==
    /\ enc_ret.op = "read_position" /\ enc_ret.ok
    /\ enc_ret.prev_last = Some(4090) /\ enc_ret.value = Some(10)
    /\ enc_ret.prev_laps = 0 /\ current_lap_count = 1
    /\ Len(lap_events) = 1

\* C10: get_direction returns 0 when the controller is not connected or the
\* speed read fails; otherwise, with s the two's-complement reading of the raw
\* speed register and speed = s * 60000 / (resolution * sampling time in ms),
\* it returns 0 when |speed| < 1.0, +1 when speed >= 1.0 and -1 when
\* speed <= -1.0 (so -5.0 gives -1, 0.3 gives 0, 12.0 gives +1).
C10_Direction ==
    (enc_ret.op = "get_direction") =>
        LET dir == Val(enc_ret.value)
        IN /\ dir \in {-1, 0, 1}
           /\ (~enc_ret.prev_conn \/ ~enc_ret.ok) => dir = 0
           /\ (enc_ret.prev_conn /\ enc_ret.ok) =>
                  LET raw == Val(enc_ret.input)
                      s == IF raw >= 32768 THEN raw - 65536 ELSE raw
                      num == s * 60000
                      den == encoder_resolution * encoder_sampling_time_ms
                  IN /\ enc_ret.speed = <<num, den>>
                     /\ (num < den /\ -num < den) => dir = 0
                     /\ (num >= den) => dir = 1
                     /\ (num <= -den) => dir = -1
                     /\ (num = -5 * den) => dir = -1
                     /\ (Abs(s) < 100 /\ 10 * num = 3 * den) => dir = 0
                     /\ (num = 12 * den) => dir = 1

\* a raw reading of 65531 at resolution 1000 and sampling time 60 ms, a speed
\* of -5.0, has been reported as reverse
C10_Witness ==
    /\ enc_ret.op = "get_direction" /\ enc_ret.ok
    /\ enc_ret.input = Some(65531)
    /\ encoder_resolution = 1000 /\ encoder_sampling_time_ms = 60
    /\ enc_ret.value = Some(-1)

\* C27: a connect that succeeds leaves last_position = None and the lap
\* count 0 and sets the wrap threshold to half of the encoder resolution,
\* whatever the lap state was before; a connect that fails returns false
\* (it raises nothing) and leaves last_position and the lap count as they
\* were.
C27_ConnectResetsLapState ==
    enc_ret.op = "connect" =>
        IF enc_ret.ok
        THEN /\ last_position = None
             /\ current_lap_count = 0
             /\ position_threshold # None
             /\ 2 * Val(position_threshold) = encoder_resolution
        ELSE /\ last_position = enc_ret.prev_last
             /\ current_lap_count = enc_ret.prev_laps

\* a connect succeeded on a controller that had a sample and a non-zero lap
\* count
C27_Witness ==
    /\ enc_ret.op = "connect"
    /\ enc_ret.ok
    /\ enc_ret.prev_last # None
    /\ enc_ret.prev_laps # 0

-----------------------------------------------------------------------------
(* Claims about the events, under SpecEvents *)

\* C28: a publication never ends with a callback's exception reaching the
\* publisher, and when the publisher has come back from it the callbacks
\* invoked are exactly the listeners that were registered for the event when
\* it was published, each once and in registration order, whichever of them
\* raised; so the poll loop, the publisher of on_data_update, goes on to its
\* next cycle.
C28_EveryListenerInvoked ==
    /\ ev_pc # "escaped"
    /\ ev_pc = "calling" =>
           /\ Len(ev_calls) <= Len(ev_at_pub)
           /\ ev_calls = SubSeq(ev_at_pub, 1, Len(ev_calls))
    /\ ev_pc = "done" => ev_calls = ev_at_pub

\* the second publication came back to the poll loop after the first of
\* the two listeners of on_data_update raised and the second was called
C28_Witness ==
    /\ ev_pc = "done"
    /\ ev_name = "on_data_update"
    /\ Len(ev_calls) = 2
    /\ 1 \in ev_raised
    /\ ev_cycles = 2

-----------------------------------------------------------------------------
(* Claims about shutdown, under SpecShutdown *)

\* the place of a shutdown step in the required order
step_rank(step) ==
    CASE step = "stop_heartbeat" -> 1
      [] step = "stop_sender" -> 2
      [] step \in {"stop_poll", "stop_supervisor"} -> 3
      [] step = "close_serial" -> 4
      [] step = "close_udp" -> 5

\* C29: the steps of a shutdown come in the order stop heartbeat, stop
\* sender, stop poll loop and connection supervisor, close the serial handle,
\* close the UDP socket (so the serial handle is closed before the socket),
\* and neither the poll loop nor the supervisor thread is alive when the
\* serial handle is closed.
C29_ShutdownOrder ==
    /\ \A i, j \in DOMAIN sd_order :
           i < j => step_rank(sd_order[i]) <= step_rank(sd_order[j])
    /\ sd_alive_at_close \cap {"poll", "supervisor"} = {}

-----------------------------------------------------------------------------
(* Claims about the controller's lock, under SpecLock *)

\* C30: every thread that is inside a serial transaction (a poll-loop read,
\* a command handler's read or write, a health check or reconnect attempt of
\* the connection monitor) holds the controller's lock, so two transactions
\* never overlap and the handle is never closed during one.
C30_TransactionsUnderLock ==
    /\ \A t \in tx_in : tx_lock.owner = Some(t)
    /\ ~tx_overlap
    /\ ~tx_cut

-----------------------------------------------------------------------------
(* Claims about the order of the locks, under SpecLockOrder *)

\* C31: no thread holds the registry's lock together with the controller's
\* lock: for every command handled and every event published the controller's
\* lock has been released before the registry's lock is taken.
C31_SessionLockReleasedFirst ==
    \A t \in LoThreads :
        ~(lo_registry.owner = Some(t) /\ lo_session.owner = Some(t))

-----------------------------------------------------------------------------
(* Claims about the mutations of the two maps, under SpecMutations *)

\* C32: every change of the client registry (insert, last-seen, format or
\* subscription update, delete) is made by a thread holding the registry's
\* lock, and every change of the task map by a thread holding the task-map
\* lock, with handlers running concurrently.
C32_MutationsUnderLock == \A m \in mu_log : m.held

-----------------------------------------------------------------------------
(* Claims about stopping the background loops, under SpecStop *)

\* C33: a stop request made while a background loop (poll loop, sender,
\* heartbeat, connection supervisor) sleeps ends the sleep at once, and the
\* loop's thread has terminated when the bounded join of the stop call
\* returns.
C33_StopEndsTheSleep ==
    st_loop # "" => (st_left = 0 /\ ~st_alive)

-----------------------------------------------------------------------------
(* Claims about the connection supervisor, under SpecSession *)

\* C39: whenever the controller is connected and has a connection monitor,
\* the monitor's device is the Modbus client the controller holds.
C39_SupervisesCurrentClient ==
    (connected /\ connection_monitor # None) => monitor_device = modbus_client

-----------------------------------------------------------------------------
(* Claims about the sender thread, under SpecSender *)

\* C37: while the server is running its sender thread is alive.
C37_SenderAliveWhileRunning ==
    sv_running => sv_send_thread = "alive"

-----------------------------------------------------------------------------
(* Claims about the serial handles, under SpecSession *)

\* C26: at any time no serial handle is open other than the one of the
\* client the controller holds: a connect on a controller that holds a client
\* closes that client's handle, and so does a disconnect.
C26_OneOpenHandle ==
    open_handles \subseteq (IF modbus_client = None THEN {} ELSE {Val(modbus_client)})

-----------------------------------------------------------------------------
(* Claims about addressing and the registry, under SpecRegistry *)

\* C6: every datagram handed to the network, a queued reply or a broadcast, goes
\* to the ip of the address it was requested for and to the configured return
\* port, and so never to the source port when that differs from the return
\* port; the same holds of every reply still waiting in the queue.
C6_ReturnPort ==
    /\ \A d \in wire :
           /\ d.to = <<d.origin[1], return_port>>
           /\ (d.origin[2] # return_port) => d.to[2] # d.origin[2]
    /\ \A i \in 1..Len(message_queue) :
           message_queue[i].addr = <<message_queue[i].origin[1], return_port>>

\* a reply to a packet from (2, 5000) has been sent, to (2, 9999)
C6_Witness ==
    [to |-> <<2, return_port>>, origin |-> <<2, 5000>>, via |-> "reply"] \in wire

\* C7: a broadcast pass sends nothing for a registry entry whose last activity
\* is older than the expiry window and leaves the registry without it, and it
\* leaves in the registry every entry within the window whose send succeeded.
C7_Expiry ==
    [][(osc_ret'.op = "broadcast" /\ now' = now) =>
          \A i \in 1..Len(clients) :
              LET e == clients[i]
                  sent == \E d \in wire' : d.origin = e.address
              IN /\ (now - e.last_seen > BROADCAST_EXPIRY_MS) =>
                        (~sent /\ ~has_key(clients', e.key))
                 /\ (now - e.last_seen <= BROADCAST_EXPIRY_MS /\ sent) =>
                        has_key(clients', e.key)]_vars

\* C17: no two entries of the registry resolve to the same (ip, return port)
\* destination: packets from one ip, whatever their source ports, share one
\* entry.
C17_KeyedByReturnPort ==
    \A i, j \in 1..Len(clients) :
        i # j => retarget(clients[i].address) # retarget(clients[j].address)

\* C18: a packet from a client, whatever its command address, leaves that
\* client's entry with the current time as its last activity, and so does
\* every datagram sent to a client with success.
C18_LastSeenRefreshed ==
    [][(now' = now) =>
          /\ (osc_ret'.from # <<>>) =>
                 /\ has_key(clients', client_key(osc_ret'.from))
                 /\ clients'[key_index(clients', client_key(osc_ret'.from))].last_seen = now
          /\ \A d \in wire' :
                 has_key(clients', client_key(d.origin)) =>
                     clients'[key_index(clients', client_key(d.origin))].last_seen = now]_vars

\* the messages for client a waiting in queue q, notifications of another
\* client's removal apart
pending(q, a) ==
    Len(SelectSeq(q, LAMBDA m : m.origin = a /\ m.data # "client_disconnected"))

\* C19: a send that fails with connection refused or host/network unreachable
\* removes that client's entry within the same operation, for a queued reply
\* as for a broadcast, and the failed message is not put back on the queue
\* nor sent again.
C19_RefusedClientRemoved ==
    [][(now' = now) =>
          \A a \in refused' :
              /\ ~has_key(clients', client_key(a))
              /\ \A d \in wire' : d.origin # a
              /\ IF osc_ret'.op = "send"
                 THEN pending(message_queue', a) < pending(message_queue, a)
                 ELSE pending(message_queue', a) <=
                          pending(message_queue, a) + (IF osc_ret'.from = a THEN 1 ELSE 0)]_vars

\* C20: every datagram that reaches the network was taken from the outbound
\* queue and sent by the sender worker ("reply" is the worker's call of
\* _send_data): none is sent by the thread of a command handler, of the poll
\* loop or of the heartbeat, which all send through broadcast.
C20_SentByWorker ==
    \A d \in wire : d.via = "reply"

-----------------------------------------------------------------------------
(* Claims about de-duplication, under SpecMonitor *)

\* C5: on a data update, a running task's sample is not broadcast exactly when
\* its fingerprint equals the one last sent for the task and less than half the
\* interval has passed since that send; a suppressed sample leaves the task's
\* stored fingerprint and send time alone, a broadcast one replaces them.  So a
\* task's first sample is broadcast, and with interval 0.5 s an identical
\* sample 0.1 s after it is not: one broadcast for the two.
C5_Dedup ==
    [][(osc_ret'.op = "data_update" /\ now' = now) =>
          \A i \in 1..Len(continuous_tasks) :
              LET t == continuous_tasks[i]
                  u == continuous_tasks'[i]
                  fp == osc_ret'.fp
                  suppressed == /\ t.last_data = Some(fp)
                                /\ 2 * (now - t.last_sent_time) < t.interval
                  broadcast_called == t.id \in osc_ret'.sent
              IN t.running =>
                     /\ suppressed <=> ~broadcast_called
                     /\ suppressed => u = t
                     /\ ~suppressed => (u.last_data = Some(fp) /\ u.last_sent_time = now)
                     /\ (t.last_data = None) => broadcast_called
                     /\ (t.interval = 500 /\ t.last_data = Some(fp)
                            /\ now - t.last_sent_time = 100) => ~broadcast_called]_vars

\* C34: whatever the response format of a running task (json, osc, text), a
\* data update that the duplicate test does not suppress for the task is
\* broadcast for it and becomes the task's last-sent fingerprint and time: no
\* format makes samples disappear.
C34_EveryFormatBroadcast ==
    [][(osc_ret'.op = "data_update" /\ now' = now) =>
          \A i \in 1..Len(continuous_tasks) :
              \A f \in Formats :
                  (/\ continuous_tasks[i].running
                   /\ continuous_tasks[i].format = f
                   /\ ~is_duplicate(continuous_tasks[i], osc_ret'.fp))
                  => /\ continuous_tasks[i].id \in osc_ret'.sent
                     /\ continuous_tasks'[i].last_data = Some(osc_ret'.fp)
                     /\ continuous_tasks'[i].last_sent_time = now]_vars

\* C38: in one pass of the data-update listener every destination
\* (ip, return port) is sent at most one monitor-data datagram.
C38_OneDatagramPerDestination ==
    [][\A data \in Samples : \A outs \in [ClientAddrs -> {"ok", "error"}] :
          OnEncoderDataUpdate(data, outs)
          => \A a \in ClientAddrs :
                 datagrams_to(retarget(a),
                              data_update_wires(continuous_tasks,
                                                Osc(clients, message_queue, {}), 1,
                                                data_fingerprint(data), outs)) <= 1]_vars

-----------------------------------------------------------------------------
(* Claims about read_register, under SpecModbus *)

\* a call that reached the wire: its address is defined and readable
rr_call_on_wire ==
    /\ rr_pc = "returned"
    /\ rr_trace # <<>>
    /\ rr_trace[1] \notin {"key_error", "not_readable"}

\* C8: readRegister makes at most 3 attempts and returns the value of the first
\* attempt that succeeds, whatever the kind of the failures before it: a call
\* returns nil only after three failed attempts, and then (and only then) the
\* error counter has grown, by exactly one.
C8_RetryEveryFailure ==
    rr_call_on_wire =>
        /\ Len(rr_trace) <= 3
        /\ (rr_result # None) =>
               (rr_trace[Len(rr_trace)] = "value" /\ error_count = rr_err0)
        /\ (rr_result = None) =>
               (Len(rr_trace) = 3 /\ error_count = rr_err0 + 1)

\* C23: a read_register or write_register call that looks up an address
\* which is not in the register map signals the error apart from the None /
\* False of an I/O failure (read_register hands its caller rr_result only,
\* write_register lets the KeyError through), after one look at the map, with
\* no frame sent and the error counter as it was.
C23_UndefinedAddressRaises ==
    /\ (rr_pc = "returned" /\ rr_trace # <<>> /\ get_register_info_raises(rr_address))
       => /\ rr_result # None
          /\ Len(rr_trace) = 1
          /\ error_count = rr_err0
    /\ (/\ wr_ret.op = "write" /\ get_register_info_raises(wr_ret.address)
        /\ serial_available /\ dev_connected)
       => /\ wr_ret.result = "raised"
          /\ ~wr_ret.sent
          /\ wr_ret.err = 0

-----------------------------------------------------------------------------
(* Claims about write_register, under SpecWrite *)

\* the ranges the register map is specified with: slave address 1-255, baud
\* code 0-4, auto-response time from 20, zero flag and increase direction
\* 0/1, sampling time from 20
specified_range ==
    (ENCODER_ADDRESS :> [lo |-> 1, hi |-> 255])
    @@ (BAUD_RATE :> [lo |-> 0, hi |-> 4])
    @@ (AUTO_RESPONSE_TIME :> [lo |-> 20, hi |-> 65535])
    @@ (RESET_ZERO_FLAG :> [lo |-> 0, hi |-> 1])
    @@ (VALUE_INCREASE_DIRECTION :> [lo |-> 0, hi |-> 1])
    @@ (SAMPLING_TIME :> [lo |-> 20, hi |-> 65535])

\* the last call was a write_register of a register that is in the map
wrote_defined == wr_ret.op = "write" /\ ~get_register_info_raises(wr_ret.address)

\* C24: a write_register call whose address does not support write, or whose
\* value is outside the register's specified range, returns False with
\* nothing sent, and the client's error counter and cached line parameters
\* are as they were before the call.
C24_InvalidWriteRejected ==
    (/\ wrote_defined
     /\ \/ REGISTERS[wr_ret.address].function_code # WRITE_SINGLE_REGISTER
        \/ /\ wr_ret.address \in DOMAIN specified_range
           /\ \/ wr_ret.value < specified_range[wr_ret.address].lo
              \/ wr_ret.value > specified_range[wr_ret.address].hi)
    => /\ wr_ret.result = "false"
       /\ ~wr_ret.sent
       /\ wr_ret.err = 0
       /\ slave_address = wr_ret.slave0
       /\ baudrate = wr_ret.baud0

\* C25: a write_register that succeeds on the slave-address register leaves
\* the written value as the cached slave address, one that succeeds on the
\* baud-rate register leaves the rate of the written code as the cached baud
\* rate; any other call, rejected, failed or to another register, leaves both
\* as they were.
C25_CachedLineParameters ==
    (wr_ret.op = "write") =>
        /\ slave_address = IF wr_ret.result = "true" /\ wr_ret.address = ENCODER_ADDRESS
                           THEN wr_ret.value ELSE wr_ret.slave0
        /\ baudrate = IF wr_ret.result = "true" /\ wr_ret.address = BAUD_RATE
                      THEN baud_map[wr_ret.value] ELSE wr_ret.baud0

\* the baud code 4 has just been written to a client whose slave address an
\* earlier write had set to 255
C25_Witness ==
    /\ wr_ret.op = "write" /\ wr_ret.result = "true"
    /\ wr_ret.address = BAUD_RATE /\ wr_ret.value = 4
    /\ wr_ret.baud0 = 9600 /\ baudrate = 115200
    /\ slave_address = 255

-----------------------------------------------------------------------------
(* Claims about one run of the poll loop, under SpecPoll *)

\* the loop breaks: it leaves a cycle for the finally clause
self_terminates == pl_pc \in {"body", "package"} /\ pl_pc' = "finally"
\* a cycle whose position read returns nil
reads_nil == pl_pc = "body" /\ pl_cycles' = pl_cycles + 1 /\ pl_out' = "nil"
\* a cycle whose position read returns a value
reads_ok == pl_pc = "body" /\ pl_cycles' = pl_cycles + 1 /\ pl_out' = "ok"
\* the read of this cycle is the 6th nil read in a row, or a nil read more
\* than 10 s after the last good read
at_ceiling == reads_nil /\ (pl_nil_run' = 6 \/ pl_since' > 10)
\* a cycle that starts with the monitor not connected
finds_disconnected == pl_pc = "body" /\ pl_cycles' = pl_cycles + 1 /\ ~connected

C14_OneErrorEvent ==
    [][at_ceiling => pl_error_events' = 1]_vars

\* C14 as amended: a run that ends at the nil-read count or time ceiling has
\* raised one on_monitor_error for each nil read of the run, the tolerated
\* ones included, the last of them at its end.
C14_OneErrorEventPerNilRead ==
    [][at_ceiling => /\ pl_error_events' = pl_nil_reads'
                     /\ pl_events' = <<"on_monitor_error">>
                     /\ pl_pc' = "finally"]_vars

C14_Witness ==
    pl_pc = "done" /\ pl_out = "nil" /\ pl_nil_run = 6 /\ pl_error_events = 6

-----------------------------------------------------------------------------
(* Claims about the connection monitor, under SpecConnMon *)

\* a turn of the monitor's loop
cm_turn == cm_now' # cm_now
\* the listeners are told connected = flag in this turn
cm_notifies(flag) == cm_turn /\ cm_note' # None /\ Val(cm_note').connected = flag

\* C15: while the device is marked connected, the third failed health check
\* in a row marks it disconnected and tells the listeners connected = false,
\* upon which the controller raises on_connection_lost.
C15_ThreeFailedChecks ==
    [][(cm_turn /\ dev_connected /\ cm_tick' = "health_failed" /\ cm_failed_checks' >= 3)
          => /\ ~dev_connected'
             /\ cm_notifies(FALSE)
             /\ connected => (~connected' /\ events' = <<"on_connection_lost">>)]_vars

\* C16: once max_retries reconnection attempts in a row have failed, two
\* attempts are at least 60 s apart until one succeeds; the one that
\* succeeds sets the retry count to 0 and tells the listeners connected =
\* true.
C16_OneAttemptPerMinute ==
    [][/\ (cm_turn /\ cm_tick' \in {"attempt_ok", "attempt_failed"}
              /\ cm_failed_attempts >= max_retries)
          => cm_now - Val(cm_last_attempt) >= 60
       /\ (cm_turn /\ cm_tick' = "attempt_ok")
          => (cm_retry_count' = 0 /\ cm_notifies(TRUE))]_vars

-----------------------------------------------------------------------------
(* Claims about the CRC functions, under SpecCrc *)

\* C11: for every byte sequence d, the empty one included, append_crc(d) is
\* d followed by the two bytes of calculate_crc(d), the low byte first, and
\* verify_crc accepts that frame.
C11_RoundTrip ==
    (crc_pc # "data" /\ crc_flip = None) =>
        /\ Len(crc_frame) = Len(crc_data) + 2
        /\ SubSeq(crc_frame, 1, Len(crc_data)) = crc_data
        /\ crc_frame[Len(crc_data) + 1] = calculate_crc(crc_data) % 256
        /\ crc_frame[Len(crc_data) + 2] = calculate_crc(crc_data) \div 256
        /\ crc_pc = "verified" => crc_ok = TRUE

C11_Witness ==
    crc_pc = "verified" /\ crc_flip = None /\ crc_data = <<>> /\ crc_ok = TRUE

\* C12: whichever single bit of append_crc(d) is inverted, a data bit or a
\* CRC bit, verify_crc rejects the frame.
C12_SingleBitDetected ==
    (crc_pc = "verified" /\ crc_flip # None) => crc_ok = FALSE

C12_Witness ==
    /\ crc_pc = "verified"
    /\ crc_flip # None
    /\ Val(crc_flip) >= 8 * Len(crc_data)
    /\ Len(crc_data) = MaxCrcLen
    /\ crc_ok = FALSE

====
